---- MODULE Spec2Model ----
(***************************************************************************)
(* Eligibility materialisation pipeline of fusion_resolver:                *)
(*   EligibilityService.computeEligibility  (diff engine + transaction),   *)
(*   EligibilityWorker.processJob           (job channel, retry, cache),   *)
(*   OptimizedOffersResolver.getOffers      (cache-aside read path),       *)
(*   CacheService                           (get / set / invalidate).      *)
(*                                                                         *)
(* Time is counted in seconds (the code counts milliseconds); strings are  *)
(* TLA+ strings, so that cache keys and glob patterns are built and        *)
(* matched character by character as the code builds and matches them.     *)
(***************************************************************************)
EXTENDS Integers, Sequences, FiniteSets, TLC

VARIABLES
    offers,         \* CashbackConfiguration / ExclusiveOffer / LoyaltyProgram rows
    loyaltyTier,    \* LoyaltyTier rows
    outlet,         \* Outlet rows, in table order
    customerType,   \* CustomerType rows, in table order
    eligibility,    \* user_offer_eligibility rows (committed)
    nextId,         \* next fresh row id of user_offer_eligibility
    now,            \* wall clock
    edits,          \* number of direct store edits made so far
    dirty,          \* what changed in the store since the last complete run
    last,           \* the last complete computeEligibility run and its diff
    events,         \* the offer-change events published so far
    jobs,           \* the offer-eligibility queue: one record per job
    cache           \* redis: set of [key, value, expires] entries

vars == <<offers, loyaltyTier, outlet, customerType, eligibility, nextId, now,
          edits, dirty, last, events, jobs, cache>>

storeVars == <<offers, loyaltyTier, outlet, customerType>>

(***************************************************************************)
(* Bounds of the model.                                                    *)
(***************************************************************************)
MaxNow == 1
MaxId == 6
MaxEdits == 1
MaxCustomerTypes == 4

(***************************************************************************)
(* Universe.                                                               *)
(***************************************************************************)
NULL == -1

Users == {"u1", "u2"}
Merchants == {"m1", "m2"}
Kinds == {"Cashback", "Exclusive", "Loyalty"}
Types == {"Gold", "Silver"}
OfferIds == {"a1"}
EndDates == {3, 5}

\* 365 * 24 * 60 * 60 * 1000 ms, in seconds
OneYear == 365 * 24 * 60 * 60

\* Outlet table as seeded: two outlets of m1, one of m2.
InitOutlets ==
    << [id |-> "o1", merchantId |-> "m1", isActive |-> TRUE],
       [id |-> "o2", merchantId |-> "m1", isActive |-> TRUE],
       [id |-> "o3", merchantId |-> "m2", isActive |-> TRUE] >>

\* CustomerType table as seeded: a user holds one type per merchant.
InitCustomerTypes ==
    << [userId |-> "u1", merchantId |-> "m1", type |-> "Gold"],
       [userId |-> "u2", merchantId |-> "m1", type |-> "Silver"],
       [userId |-> "u2", merchantId |-> "m2", type |-> "Gold"] >>

TypeSets == { {"Gold"}, {"Gold", "Silver"}, {"All"}, {} }

\* Rows of the three offer tables.  A LoyaltyProgram row has no deletedAt,
\* no dates and no eligibleCustomerTypes column; those fields stay NULL / {}.
CashbackRows ==
    { [id |-> i, kind |-> "Cashback", merchantId |-> m, isActive |-> TRUE,
       deletedAt |-> NULL, eligibleCustomerTypes |-> ts,
       startDate |-> d[1], endDate |-> d[2]] :
         i \in OfferIds, m \in {"m1"}, ts \in TypeSets,
         d \in { <<NULL, NULL>>, <<NULL, 3>>, <<1, 3>> } }

ExclusiveRows ==
    { [id |-> i, kind |-> "Exclusive", merchantId |-> m, isActive |-> TRUE,
       deletedAt |-> NULL, eligibleCustomerTypes |-> ts,
       startDate |-> 1, endDate |-> 3] :
         i \in OfferIds, m \in {"m1"}, ts \in TypeSets }

LoyaltyRows ==
    { [id |-> i, kind |-> "Loyalty", merchantId |-> m, isActive |-> TRUE,
       deletedAt |-> NULL, eligibleCustomerTypes |-> {},
       startDate |-> NULL, endDate |-> NULL] :
         i \in OfferIds, m \in {"m1"} }

Tier(n, p, t, a, d) ==
    [id |-> n, loyaltyProgramId |-> p, minCustomerType |-> t,
     isActive |-> a, deletedAt |-> d]

TierSets ==
    { { Tier("t1", "a1", "Gold", TRUE, NULL) },
      { Tier("t1", "a1", "Gold", TRUE, NULL), Tier("t2", "a1", "Silver", FALSE, NULL) },
      { Tier("t1", "a1", "Gold", FALSE, NULL), Tier("t2", "a1", "Silver", TRUE, 1) } }

(***************************************************************************)
(* Small helpers.                                                          *)
(***************************************************************************)
Range(s) == { s[i] : i \in DOMAIN s }

Min(S) == CHOOSE x \in S : \A y \in S : x <= y

RECURSIVE SeqOfIds(_)
SeqOfIds(S) == IF S = {} THEN <<>> ELSE <<Min(S)>> \o SeqOfIds(S \ {Min(S)})

RemoveAt(s, i) == SubSeq(s, 1, i - 1) \o SubSeq(s, i + 1, Len(s))

(***************************************************************************)
(* EligibilityService.getOfferDetails: the offer descriptor, one shape for *)
(* the three kinds; null for a missing row and for an unknown offerType.   *)
(***************************************************************************)
NoOffer ==
    [found |-> FALSE, eligibleCustomerTypes |-> {}, startDate |-> NULL,
     endDate |-> NULL, isActive |-> FALSE, deletedAt |-> NULL]

\* findUnique({ where: { id } }) on the table of one kind
FindUnique(tbl, kind, offerId) ==
    LET S == { o \in tbl : o.kind = kind /\ o.id = offerId }
    IN  IF S = {} THEN [found |-> FALSE] ELSE [found |-> TRUE, row |-> CHOOSE o \in S : TRUE]

\* variant: the Loyalty types come from every tier of the program
GetOfferDetails_AllTiers(tbl, tiers, offerId, offerType) ==
    CASE offerType \in {"Cashback", "Exclusive"} ->
           LET f == FindUnique(tbl, offerType, offerId)
           IN  IF ~f.found THEN NoOffer
               ELSE [found |-> TRUE,
                     eligibleCustomerTypes |-> f.row.eligibleCustomerTypes,
                     startDate |-> f.row.startDate,
                     endDate |-> f.row.endDate,
                     isActive |-> f.row.isActive,
                     deletedAt |-> f.row.deletedAt]
      [] offerType = "Loyalty" ->
           LET f == FindUnique(tbl, "Loyalty", offerId)
           IN  IF ~f.found THEN NoOffer
               ELSE [found |-> TRUE,
                     eligibleCustomerTypes |->
                        { t.minCustomerType :
                            t \in { x \in tiers : x.loyaltyProgramId = offerId } },
                     startDate |-> NULL,
                     endDate |-> NULL,
                     isActive |-> f.row.isActive,
                     deletedAt |-> NULL]
      [] OTHER -> NoOffer

GetOfferDetails(tbl, tiers, offerId, offerType) ==
    CASE offerType \in {"Cashback", "Exclusive"} ->
           LET f == FindUnique(tbl, offerType, offerId)
           IN  IF ~f.found THEN NoOffer
               ELSE [found |-> TRUE,
                     eligibleCustomerTypes |-> f.row.eligibleCustomerTypes,
                     startDate |-> f.row.startDate,
                     endDate |-> f.row.endDate,
                     isActive |-> f.row.isActive,
                     deletedAt |-> f.row.deletedAt]
      [] offerType = "Loyalty" ->
           LET f == FindUnique(tbl, "Loyalty", offerId)
           IN  IF ~f.found THEN NoOffer
               ELSE [found |-> TRUE,
                     eligibleCustomerTypes |->
                        { t.minCustomerType :
                            t \in { x \in tiers : /\ x.loyaltyProgramId = offerId
                                                  /\ x.isActive
                                                  /\ x.deletedAt = NULL } },
                     startDate |-> NULL,
                     endDate |-> NULL,
                     isActive |-> f.row.isActive,
                     deletedAt |-> NULL]
      [] OTHER -> NoOffer

(***************************************************************************)
(* EligibilityService.computeEligibility, steps 3 to 7.                    *)
(***************************************************************************)
\* variant: the outlets are not filtered by isActive
ActiveOutlets_AnyStatus(outs, merchantId) ==
    SelectSeq(outs, LAMBDA o : o.merchantId = merchantId)

\* variant: the active outlets of every merchant
ActiveOutlets_AnyMerchant(outs, merchantId) ==
    SelectSeq(outs, LAMBDA o : o.isActive)

\* step 3: outlet.findMany({ where: { merchantId, isActive: true } })
ActiveOutlets(outs, merchantId) ==
    SelectSeq(outs, LAMBDA o : o.merchantId = merchantId /\ o.isActive)

\* variant: 'All' is looked up like any other type label
EligibleCustomerTypes_NoSentinel(cts, offer, merchantId) ==
    SelectSeq(cts, LAMBDA c : /\ c.merchantId = merchantId
                              /\ c.type \in offer.eligibleCustomerTypes)

\* step 4: customerType.findMany, every row of the merchant under 'All'
EligibleCustomerTypes(cts, offer, merchantId) ==
    IF "All" \in offer.eligibleCustomerTypes
    THEN SelectSeq(cts, LAMBDA c : c.merchantId = merchantId)
    ELSE SelectSeq(cts, LAMBDA c : /\ c.merchantId = merchantId
                                   /\ c.type \in offer.eligibleCustomerTypes)

\* variant: the records are built with isEligible false
NewEligibilityRecords_NotEligible(offer, offerId, offerType, merchantId, cts, outs, t) ==
    [ k \in 1..(Len(cts) * Len(outs)) |->
        LET ct == cts[((k - 1) \div Len(outs)) + 1]
            o  == outs[((k - 1) % Len(outs)) + 1]
        IN  [userId |-> ct.userId,
             outletId |-> o.id,
             offerType |-> offerType,
             offerId |-> offerId,
             merchantId |-> merchantId,
             isEligible |-> FALSE,
             validFrom |-> IF offer.startDate # NULL THEN offer.startDate ELSE t,
             validUntil |-> IF offer.endDate # NULL THEN offer.endDate ELSE t + OneYear,
             lastUpdated |-> t] ]

\* step 5: eligibleCustomerTypes.flatMap(ct => outlets.map(outlet => ...))
NewEligibilityRecords(offer, offerId, offerType, merchantId, cts, outs, t) ==
    [ k \in 1..(Len(cts) * Len(outs)) |->
        LET ct == cts[((k - 1) \div Len(outs)) + 1]
            o  == outs[((k - 1) % Len(outs)) + 1]
        IN  [userId |-> ct.userId,
             outletId |-> o.id,
             offerType |-> offerType,
             offerId |-> offerId,
             merchantId |-> merchantId,
             isEligible |-> TRUE,
             validFrom |-> IF offer.startDate # NULL THEN offer.startDate ELSE t,
             validUntil |-> IF offer.endDate # NULL THEN offer.endDate ELSE t + OneYear,
             lastUpdated |-> t] ]

\* step 6: userOfferEligibility.findMany({ where: { offerId, offerType }, select })
\* (rows are returned in id order)
ExistingRecords(rows, offerId, offerType) ==
    LET S == { r \in rows : r.offerId = offerId /\ r.offerType = offerType }
        ids == SeqOfIds({ r.id : r \in S })
    IN  [ i \in 1..Len(ids) |->
            LET r == CHOOSE x \in S : x.id = ids[i]
            IN  [id |-> r.id, userId |-> r.userId, outletId |-> r.outletId,
                 validFrom |-> r.validFrom, validUntil |-> r.validUntil] ]

\* `${r.userId}:${r.outletId}`
Key(r) == r.userId \o ":" \o r.outletId

KeySet(recs) == { Key(recs[i]) : i \in DOMAIN recs }

\* step 7
ToCreate(newRecs, existing) ==
    SelectSeq(newRecs, LAMBDA r : Key(r) \notin KeySet(existing))

\* variant: every existing row is put in toDelete
ToDelete_Everything(newRecs, existing) == existing

ToDelete(newRecs, existing) ==
    SelectSeq(existing, LAMBDA r : Key(r) \notin KeySet(newRecs))

\* newEligibilityRecords.find(n => n.userId === ... && n.outletId === ...)
FindNew(newRecs, e) ==
    LET I == { i \in DOMAIN newRecs : /\ newRecs[i].userId = e.userId
                                      /\ newRecs[i].outletId = e.outletId }
    IN  IF I = {} THEN [found |-> FALSE] ELSE [found |-> TRUE, rec |-> newRecs[Min(I)]]

\* variant: only validFrom is compared
NeedsUpdate_FromOnly(newRecs, e) ==
    /\ Key(e) \in KeySet(newRecs)
    /\ FindNew(newRecs, e).found
    /\ e.validFrom # FindNew(newRecs, e).rec.validFrom

NeedsUpdate(newRecs, e) ==
    /\ Key(e) \in KeySet(newRecs)
    /\ FindNew(newRecs, e).found
    /\ \/ e.validFrom # FindNew(newRecs, e).rec.validFrom
       \/ e.validUntil # FindNew(newRecs, e).rec.validUntil

ToUpdate(newRecs, existing, t) ==
    LET sel == SelectSeq(existing, LAMBDA e : NeedsUpdate(newRecs, e))
    IN  [ i \in 1..Len(sel) |->
            [id |-> sel[i].id,
             validFrom |-> FindNew(newRecs, sel[i]).rec.validFrom,
             validUntil |-> FindNew(newRecs, sel[i]).rec.validUntil,
             lastUpdated |-> t] ]

(***************************************************************************)
(* Step 8: the statements issued inside prisma.$transaction, in order.     *)
(***************************************************************************)
UPDATE_BATCH_SIZE == 500
CREATE_BATCH_SIZE == 1000

\* for (i = 0; i < records.length; i += size) records.slice(i, i + size)
Batches(recs, size) ==
    [ b \in 1..((Len(recs) + size - 1) \div size) |->
        SubSeq(recs, (b - 1) * size + 1,
               IF b * size < Len(recs) THEN b * size ELSE Len(recs)) ]

RECURSIVE Flatten(_)
Flatten(ss) == IF ss = <<>> THEN <<>> ELSE Head(ss) \o Flatten(Tail(ss))

DeleteStatements(toDelete) ==
    IF Len(toDelete) > 0
    THEN << [op |-> "deleteMany", ids |-> { toDelete[i].id : i \in DOMAIN toDelete }] >>
    ELSE << >>

\* one tx.update per record, batch after batch
UpdateStatements(toUpdate) ==
    LET flat == Flatten(Batches(toUpdate, UPDATE_BATCH_SIZE))
    IN  [ i \in 1..Len(flat) |-> [op |-> "update", rec |-> flat[i]] ]

\* batchCreateMany(tx, toCreate, 1000): one createMany per batch
CreateStatements(toCreate) ==
    LET bs == Batches(toCreate, CREATE_BATCH_SIZE)
    IN  [ i \in 1..Len(bs) |-> [op |-> "createMany", data |-> bs[i]] ]

TxStatements(toCreate, toUpdate, toDelete) ==
    DeleteStatements(toDelete) \o UpdateStatements(toUpdate) \o CreateStatements(toCreate)

(***************************************************************************)
(* The store's side of the statements.  A table state is                   *)
(* [rows, nextId, ok]; ok turns FALSE when a statement throws.             *)
(***************************************************************************)
SameUnique(a, b) ==
    /\ a.userId = b.userId /\ a.outletId = b.outletId
    /\ a.offerType = b.offerType /\ a.offerId = b.offerId

\* variant: a table without the unique index, every record is inserted
RECURSIVE CreateMany_NoIndex(_, _, _)
CreateMany_NoIndex(tbl, data, t) ==
    IF data = << >> THEN tbl
    ELSE LET r == Head(data)
         IN  CreateMany_NoIndex(
                    [tbl EXCEPT !.rows = @ \cup
                        { [id |-> tbl.nextId, userId |-> r.userId,
                           outletId |-> r.outletId, offerType |-> r.offerType,
                           offerId |-> r.offerId, merchantId |-> r.merchantId,
                           isEligible |-> r.isEligible, validFrom |-> r.validFrom,
                           validUntil |-> r.validUntil, lastUpdated |-> r.lastUpdated,
                           createdAt |-> t] },
                                !.nextId = @ + 1],
                    Tail(data), t)

\* variant: createMany without skipDuplicates, a plain INSERT: a record whose
\* unique key is taken throws
RECURSIVE CreateMany_FailOnDuplicate(_, _, _)
CreateMany_FailOnDuplicate(tbl, data, t) ==
    IF data = << >> THEN tbl
    ELSE LET r == Head(data)
         IN  IF \E x \in tbl.rows : SameUnique(x, r)
             THEN [tbl EXCEPT !.ok = FALSE]
             ELSE CreateMany_FailOnDuplicate(
                    [tbl EXCEPT !.rows = @ \cup
                        { [id |-> tbl.nextId, userId |-> r.userId,
                           outletId |-> r.outletId, offerType |-> r.offerType,
                           offerId |-> r.offerId, merchantId |-> r.merchantId,
                           isEligible |-> r.isEligible, validFrom |-> r.validFrom,
                           validUntil |-> r.validUntil, lastUpdated |-> r.lastUpdated,
                           createdAt |-> t] },
                                !.nextId = @ + 1],
                    Tail(data), t)

\* createMany({ data, skipDuplicates: true }): INSERT ... ON CONFLICT DO NOTHING
\* under the unique index (userId, outletId, offerType, offerId)
RECURSIVE CreateMany(_, _, _)
CreateMany(tbl, data, t) ==
    IF data = << >> THEN tbl
    ELSE LET r == Head(data)
         IN  IF \E x \in tbl.rows : SameUnique(x, r)
             THEN CreateMany(tbl, Tail(data), t)
             ELSE CreateMany(
                    [tbl EXCEPT !.rows = @ \cup
                        { [id |-> tbl.nextId, userId |-> r.userId,
                           outletId |-> r.outletId, offerType |-> r.offerType,
                           offerId |-> r.offerId, merchantId |-> r.merchantId,
                           isEligible |-> r.isEligible, validFrom |-> r.validFrom,
                           validUntil |-> r.validUntil, lastUpdated |-> r.lastUpdated,
                           createdAt |-> t] },
                                !.nextId = @ + 1],
                    Tail(data), t)

\* variant: the update also rewrites the isEligible flag of the row
Update_Flag(tbl, rec) ==
    IF \E x \in tbl.rows : x.id = rec.id
    THEN [tbl EXCEPT !.rows =
            { IF x.id = rec.id
              THEN [x EXCEPT !.validFrom = rec.validFrom,
                             !.validUntil = rec.validUntil,
                             !.lastUpdated = rec.lastUpdated,
                             !.isEligible = FALSE]
              ELSE x : x \in @ }]
    ELSE [tbl EXCEPT !.ok = FALSE]

\* update({ where: { id }, data }): throws when no row has the id
Update(tbl, rec) ==
    IF \E x \in tbl.rows : x.id = rec.id
    THEN [tbl EXCEPT !.rows =
            { IF x.id = rec.id
              THEN [x EXCEPT !.validFrom = rec.validFrom,
                             !.validUntil = rec.validUntil,
                             !.lastUpdated = rec.lastUpdated]
              ELSE x : x \in @ }]
    ELSE [tbl EXCEPT !.ok = FALSE]

\* deleteMany({ where: { id: { in: ids } } })
DeleteManyIds(tbl, ids) ==
    [tbl EXCEPT !.rows = { x \in @ : x.id \notin ids }]

\* variant: deleteMany({ where: { offerType } })
DeleteManyOffer_ByType(rows, offerId, offerType) ==
    { x \in rows : x.offerType # offerType }

\* deleteMany({ where: { offerId, offerType } })
DeleteManyOffer(rows, offerId, offerType) ==
    { x \in rows : ~(x.offerId = offerId /\ x.offerType = offerType) }

ApplyStatement(tbl, stmt, t) ==
    IF ~tbl.ok THEN tbl
    ELSE CASE stmt.op = "deleteMany" -> DeleteManyIds(tbl, stmt.ids)
           [] stmt.op = "update"     -> Update(tbl, stmt.rec)
           [] stmt.op = "createMany" -> CreateMany(tbl, stmt.data, t)

RECURSIVE ApplyStatements(_, _, _)
ApplyStatements(tbl, stmts, t) ==
    IF stmts = << >> THEN tbl
    ELSE ApplyStatements(ApplyStatement(tbl, Head(stmts), t), Tail(stmts), t)

\* prisma.$transaction(async tx => ...): all statements or none
Transaction(rows, nid, stmts, t) ==
    LET r == ApplyStatements([rows |-> rows, nextId |-> nid, ok |-> TRUE], stmts, t)
    IN  IF r.ok THEN r ELSE [rows |-> rows, nextId |-> nid, ok |-> FALSE]

(***************************************************************************)
(* computeEligibility as one run on a store that nobody else touches:      *)
(* which path it takes, the diff it computes, the table it leaves.         *)
(***************************************************************************)
\* variant: the early return leaves the rows of the offer in place
Tombstone_KeepRows(path, rows, nid, offerId, offerType) ==
    [path |-> path,
     toCreate |-> << >>, toUpdate |-> << >>, toDelete |-> << >>,
     rows |-> rows, nextId |-> nid, ok |-> TRUE]

Tombstone(path, rows, nid, offerId, offerType) ==
    [path |-> path,
     toCreate |-> << >>, toUpdate |-> << >>,
     toDelete |-> ExistingRecords(rows, offerId, offerType),
     rows |-> DeleteManyOffer(rows, offerId, offerType),
     nextId |-> nid, ok |-> TRUE]

Diff(offer, offerId, offerType, merchantId, cts, outs, rows, t) ==
    LET newRecs  == NewEligibilityRecords(offer, offerId, offerType, merchantId,
                                          EligibleCustomerTypes(cts, offer, merchantId),
                                          outs, t)
        existing == ExistingRecords(rows, offerId, offerType)
    IN  [toCreate |-> ToCreate(newRecs, existing),
         toUpdate |-> ToUpdate(newRecs, existing, t),
         toDelete |-> ToDelete(newRecs, existing)]

Run(offerId, offerType, merchantId) ==
    LET offer == GetOfferDetails(offers, loyaltyTier, offerId, offerType)
        outs  == ActiveOutlets(outlet, merchantId)
    IN  IF ~offer.found
        THEN Tombstone("notFound", eligibility, nextId, offerId, offerType)
        ELSE IF ~offer.isActive \/ offer.deletedAt # NULL
        THEN Tombstone("inactive", eligibility, nextId, offerId, offerType)
        ELSE IF Len(outs) = 0
        THEN Tombstone("noOutlets", eligibility, nextId, offerId, offerType)
        ELSE LET d  == Diff(offer, offerId, offerType, merchantId,
                            customerType, outs, eligibility, now)
                 tx == Transaction(eligibility, nextId,
                                   TxStatements(d.toCreate, d.toUpdate, d.toDelete), now)
             IN  [path |-> "diff",
                  toCreate |-> d.toCreate, toUpdate |-> d.toUpdate,
                  toDelete |-> d.toDelete,
                  rows |-> tx.rows, nextId |-> tx.nextId, ok |-> tx.ok]

(***************************************************************************)
(* History of the runs, kept for the properties: the last complete run,    *)
(* the sizes of the diff it computed, whether it left the rows (the row    *)
(* ids) as they were, and whether it repeated the previous run on an       *)
(* unchanged store (repeat) or on a store in which only the end date of    *)
(* its offer had changed (endOnly).                                        *)
(***************************************************************************)
NoRun ==
    [ran |-> FALSE, offerId |-> "", offerType |-> "", merchantId |-> "",
     path |-> "", created |-> 0, updated |-> 0, deleted |-> 0,
     sameRows |-> TRUE, sameIds |-> TRUE, repeat |-> FALSE, endOnly |-> FALSE]

Clean == [what |-> "clean", id |-> "", kind |-> "", was |-> NULL]

Other == [what |-> "other", id |-> "", kind |-> "", was |-> NULL]

\* was: the end date the offer had at the last run
EndDateOf(o) ==
    IF dirty.what = "clean"
    THEN [what |-> "endDate", id |-> o.id, kind |-> o.kind, was |-> o.endDate]
    ELSE IF dirty.what = "endDate" /\ dirty.id = o.id /\ dirty.kind = o.kind
    THEN dirty
    ELSE Other

SameArgs(offerId, offerType, merchantId) ==
    /\ last.ran
    /\ last.offerId = offerId /\ last.offerType = offerType
    /\ last.merchantId = merchantId

RunRecord(r, offerId, offerType, merchantId) ==
    [ran |-> TRUE, offerId |-> offerId, offerType |-> offerType,
     merchantId |-> merchantId, path |-> r.path,
     created |-> Len(r.toCreate), updated |-> Len(r.toUpdate),
     deleted |-> Len(r.toDelete),
     sameRows |-> r.rows = eligibility,
     sameIds |-> { x.id : x \in r.rows } = { x.id : x \in eligibility },
     repeat |-> SameArgs(offerId, offerType, merchantId) /\ dirty.what = "clean",
     endOnly |-> /\ SameArgs(offerId, offerType, merchantId)
                 /\ dirty.what = "endDate"
                 /\ dirty.id = offerId /\ dirty.kind = offerType
                 /\ \E o \in offers : /\ o.id = offerId /\ o.kind = offerType
                                      /\ o.endDate # dirty.was]

(***************************************************************************)
(* Initial states: one offer of any kind in the store and its 'created'    *)
(* event published (createOffer publishes offer.id and offer.merchantId    *)
(* under the offer's kind), the seeded outlets and customer types, no      *)
(* eligibility row yet, an empty queue and cache.                          *)
(***************************************************************************)
CreatedEvent(o) ==
    [eventType |-> "created", offerType |-> o.kind,
     offerId |-> o.id, merchantId |-> o.merchantId]

InitCommon ==
    /\ outlet = InitOutlets
    /\ customerType = InitCustomerTypes
    /\ eligibility = {}
    /\ nextId = 1
    /\ now = 0
    /\ edits = 0
    /\ dirty = Clean
    /\ last = NoRun
    /\ jobs = << >>
    /\ cache = {}

Init ==
    /\ InitCommon
    /\ \/ /\ offers \in { {o} : o \in CashbackRows \cup ExclusiveRows }
          /\ loyaltyTier = {}
       \/ /\ offers \in { {o} : o \in LoyaltyRows }
          /\ loyaltyTier \in TierSets
    /\ events = { CreatedEvent(o) : o \in offers }

(***************************************************************************)
(* computeEligibility(offerId, offerType, merchantId), run alone.          *)
(***************************************************************************)
ComputeEligibility(offerId, offerType, merchantId) ==
    LET r == Run(offerId, offerType, merchantId)
    IN  /\ \E e \in events : /\ e.offerId = offerId /\ e.offerType = offerType
                             /\ e.merchantId = merchantId
        /\ r.ok
        /\ r.nextId <= MaxId + 1
        /\ eligibility' = r.rows
        /\ nextId' = r.nextId
        /\ last' = RunRecord(r, offerId, offerType, merchantId)
        /\ dirty' = Clean
        /\ UNCHANGED <<storeVars, now, edits, events, jobs, cache>>

\* the clock advances
Tick ==
    /\ now < MaxNow
    /\ now' = now + 1
    /\ UNCHANGED <<storeVars, eligibility, nextId, edits, dirty, last, events, jobs, cache>>

(***************************************************************************)
(* Direct edits of the store by the rest of the platform (the tables of    *)
(* the init migration): the events of the queue report such edits.         *)
(***************************************************************************)
Edit(d) ==
    /\ edits < MaxEdits
    /\ edits' = edits + 1
    /\ dirty' = d
    /\ UNCHANGED <<eligibility, nextId, now, last, events, jobs, cache>>

SetOfferActive(o, flag) ==
    /\ o \in offers
    /\ o.isActive # flag
    /\ offers' = (offers \ {o}) \cup {[o EXCEPT !.isActive = flag]}
    /\ Edit(Other)
    /\ UNCHANGED <<loyaltyTier, outlet, customerType>>

SoftDeleteOffer(o) ==
    /\ o \in offers
    /\ o.kind \in {"Cashback", "Exclusive"}
    /\ o.deletedAt = NULL
    /\ offers' = (offers \ {o}) \cup {[o EXCEPT !.deletedAt = now]}
    /\ Edit(Other)
    /\ UNCHANGED <<loyaltyTier, outlet, customerType>>

SetEndDate(o, d) ==
    /\ o \in offers
    /\ o.kind \in {"Cashback", "Exclusive"}
    /\ o.endDate # d
    /\ offers' = (offers \ {o}) \cup {[o EXCEPT !.endDate = d]}
    /\ Edit(EndDateOf(o))
    /\ UNCHANGED <<loyaltyTier, outlet, customerType>>

DeleteOffer(o) ==
    /\ o \in offers
    /\ offers' = offers \ {o}
    /\ loyaltyTier' = IF o.kind = "Loyalty"
                      THEN { t \in loyaltyTier : t.loyaltyProgramId # o.id }
                      ELSE loyaltyTier
    /\ Edit(Other)
    /\ UNCHANGED <<outlet, customerType>>

SetTierActive(t, flag) ==
    /\ t \in loyaltyTier
    /\ t.isActive # flag
    /\ loyaltyTier' = (loyaltyTier \ {t}) \cup {[t EXCEPT !.isActive = flag]}
    /\ Edit(Other)
    /\ UNCHANGED <<offers, outlet, customerType>>

SetOutletActive(i, flag) ==
    /\ i \in DOMAIN outlet
    /\ outlet[i].isActive # flag
    /\ outlet' = [outlet EXCEPT ![i].isActive = flag]
    /\ Edit(Other)
    /\ UNCHANGED <<offers, loyaltyTier, customerType>>

SetCustomerType(i, t) ==
    /\ i \in DOMAIN customerType
    /\ customerType[i].type # t
    /\ customerType' = [customerType EXCEPT ![i].type = t]
    /\ Edit(Other)
    /\ UNCHANGED <<offers, loyaltyTier, outlet>>

AddCustomerType(u, m, t) ==
    /\ Len(customerType) < MaxCustomerTypes
    /\ customerType' = Append(customerType, [userId |-> u, merchantId |-> m, type |-> t])
    /\ Edit(Other)
    /\ UNCHANGED <<offers, loyaltyTier, outlet>>

RemoveCustomerType(i) ==
    /\ i \in DOMAIN customerType
    /\ customerType' = RemoveAt(customerType, i)
    /\ Edit(Other)
    /\ UNCHANGED <<offers, loyaltyTier, outlet>>

StoreEdit ==
    \/ \E o \in offers, flag \in BOOLEAN : SetOfferActive(o, flag)
    \/ \E o \in offers : SoftDeleteOffer(o)
    \/ \E o \in offers, d \in EndDates : SetEndDate(o, d)
    \/ \E o \in offers : DeleteOffer(o)
    \/ \E t \in loyaltyTier, flag \in BOOLEAN : SetTierActive(t, flag)
    \/ \E i \in DOMAIN outlet, flag \in BOOLEAN : SetOutletActive(i, flag)
    \/ \E i \in DOMAIN customerType, t \in Types : SetCustomerType(i, t)
    \/ \E u \in Users, m \in Merchants, t \in Types : AddCustomerType(u, m, t)
    \/ \E i \in DOMAIN customerType : RemoveCustomerType(i)

Next ==
    \/ \E i \in OfferIds, k \in Kinds, m \in Merchants : ComputeEligibility(i, k, m)
    \/ Tick
    \/ StoreEdit

Spec == Init /\ [][Next]_vars

TypeOK ==
    /\ now \in Nat
    /\ nextId \in 1..(MaxId + 1)
    /\ \A r \in eligibility : r.id < nextId

(***************************************************************************)
(* CacheService over redis, and the cache key of getOffers.                *)
(***************************************************************************)
\* redis glob: '*' matches any run of characters, every other character
\* of the patterns used here matches itself; the whole key must match
RECURSIVE GlobMatch(_, _)
GlobMatch(p, k) ==
    IF Len(p) = 0 THEN Len(k) = 0
    ELSE IF SubSeq(p, 1, 1) = "*"
         THEN \/ GlobMatch(SubSeq(p, 2, Len(p)), k)
              \/ Len(k) > 0 /\ GlobMatch(p, SubSeq(k, 2, Len(k)))
         ELSE /\ Len(k) > 0
              /\ SubSeq(p, 1, 1) = SubSeq(k, 1, 1)
              /\ GlobMatch(SubSeq(p, 2, Len(p)), SubSeq(k, 2, Len(k)))

\* CacheService.invalidate(pattern): redis.keys(pattern), then redis.del(...keys)
Invalidate(entries, pattern) ==
    { c \in entries : ~GlobMatch(pattern, c.key) }

\* JSON text of the scalars of an OffersResponse: a number is written in
\* decimal, a boolean as true / false, a string stays the string it is
BoolText(b) == IF b THEN "true" ELSE "false"

Digit(ch) == CHOOSE d \in 0..9 : ToString(d) = ch

RECURSIVE ParseNat(_)
ParseNat(txt) ==
    IF Len(txt) = 1 THEN Digit(txt)
    ELSE 10 * ParseNat(SubSeq(txt, 1, Len(txt) - 1)) + Digit(SubSeq(txt, Len(txt), Len(txt)))

\* JSON.stringify(value) of an OffersResponse
JsonStringify(value) ==
    [offers |-> [cashback |-> { [o EXCEPT !.isActive = BoolText(@)] : o \in value.offers.cashback },
                 exclusive |-> { [o EXCEPT !.isActive = BoolText(@)] : o \in value.offers.exclusive }],
     total |-> ToString(value.total),
     hasMore |-> BoolText(value.hasMore),
     page |-> ToString(value.page)]

\* JSON.parse(data)
JsonParse(data) ==
    [offers |-> [cashback |-> { [o EXCEPT !.isActive = (@ = "true")] : o \in data.offers.cashback },
                 exclusive |-> { [o EXCEPT !.isActive = (@ = "true")] : o \in data.offers.exclusive }],
     total |-> ParseNat(data.total),
     hasMore |-> (data.hasMore = "true"),
     page |-> ParseNat(data.page)]

\* CacheService.get(key): redis drops an entry when its ttl has run out
CacheGet(entries, key, t) ==
    LET S == { c \in entries : c.key = key /\ t < c.expires }
    IN  IF S = {} THEN [hit |-> FALSE]
        ELSE [hit |-> TRUE, value |-> JsonParse((CHOOSE c \in S : TRUE).data)]

\* CacheService.set(key, value, ttl): redis.setex
CacheSet(entries, key, value, ttl, userId, t) ==
    { c \in entries : c.key # key } \cup
        { [key |-> key, data |-> JsonStringify(value), expires |-> t + ttl,
           userId |-> userId] }

\* userMerchants.map(m => m.merchantId).join(',')
RECURSIVE Join(_)
Join(ss) ==
    IF Len(ss) = 0 THEN ""
    ELSE IF Len(ss) = 1 THEN ss[1]
    ELSE ss[1] \o "," \o Join(Tail(ss))

MerchantIds(cts, userId) ==
    LET mine == SelectSeq(cts, LAMBDA c : c.userId = userId)
    IN  Join([ i \in 1..Len(mine) |-> mine[i].merchantId ])

\* outletId and offerType are "" when the caller leaves them out
CacheKey(userId, outletId, offerType, merchantIds, page, limit) ==
    "offers:" \o userId
      \o ":outlet:" \o (IF outletId # "" THEN outletId ELSE "all")
      \o ":type:" \o (IF offerType # "" THEN offerType ELSE "all")
      \o ":merchants:" \o merchantIds
      \o ":page:" \o ToString(page)
      \o ":limit:" \o ToString(limit)

\* the pattern processJob invalidates with
WorkerPattern(merchantId) == "offers:*:merchant:" \o merchantId

(***************************************************************************)
(* OptimizedOffersResolver.getOffers on a cache miss.                      *)
(***************************************************************************)
\* variant: the empty response is kept as long as any other
EMPTY_TTL_Long == 5 * 60

EMPTY_TTL == 60
RESPONSE_TTL == 300

\* variant: the rows of every user
Matching_AnyUser(rows, userId, outletId, offerType, t) ==
    { r \in rows : /\ (outletId # "" => r.outletId = outletId)
                   /\ (offerType # "" => r.offerType = offerType)
                   /\ r.isEligible
                   /\ r.validFrom <= t /\ r.validUntil >= t }

\* variant: the validity window is not looked at
Matching_NoWindow(rows, userId, outletId, offerType, t) ==
    { r \in rows : /\ r.userId = userId
                   /\ (outletId # "" => r.outletId = outletId)
                   /\ (offerType # "" => r.offerType = offerType)
                   /\ r.isEligible }

Matching(rows, userId, outletId, offerType, t) ==
    { r \in rows : /\ r.userId = userId
                   /\ (outletId # "" => r.outletId = outletId)
                   /\ (offerType # "" => r.offerType = offerType)
                   /\ r.isEligible
                   /\ r.validFrom <= t /\ r.validUntil >= t }

\* orderBy createdAt desc (rows of one instant by id), skip, take
RECURSIVE Ordered(_)
Ordered(S) ==
    IF S = {} THEN << >>
    ELSE LET r == CHOOSE x \in S : \A y \in S :
                     \/ x.createdAt > y.createdAt
                     \/ x.createdAt = y.createdAt /\ x.id <= y.id
         IN  <<r>> \o Ordered(S \ {r})

PageOf(S, page, limit) ==
    LET all == Ordered(S)
        from == (page - 1) * limit + 1
        to == IF page * limit < Len(all) THEN page * limit ELSE Len(all)
    IN  SubSeq(all, from, to)

\* enrichOffers: the active Cashback offers of the page, then the active
\* Exclusive ones, each once, with the window of the row kept under its id
\* variant: the window of the last row of the page, whatever its offer
EligibilityMap_LastRow(recs, offerId) == recs[Len(recs)]

EligibilityMap(recs, offerId) ==
    recs[CHOOSE i \in DOMAIN recs :
            /\ recs[i].offerId = offerId
            /\ \A k \in DOMAIN recs : recs[k].offerId = offerId => k <= i]

\* Date.toISOString(): the instant as text
ToISOString(t) == ToString(t)

\* cb.startDate?.toISOString() || new Date().toISOString()
EnrichKind(tbl, recs, kind, t) ==
    LET ids == { recs[i].offerId : i \in { k \in DOMAIN recs : recs[k].offerType = kind } }
        found == { o \in tbl : o.kind = kind /\ o.id \in ids /\ o.isActive }
    IN  { [id |-> o.id, offerType |-> kind,
           startDate |-> ToISOString(IF o.startDate # NULL THEN o.startDate ELSE t),
           endDate |-> ToISOString(IF o.endDate # NULL THEN o.endDate ELSE t),
           merchantId |-> o.merchantId, isActive |-> o.isActive,
           validFrom |-> ToISOString(EligibilityMap(recs, o.id).validFrom),
           validUntil |-> ToISOString(EligibilityMap(recs, o.id).validUntil)] : o \in found }

EnrichOffers(tbl, recs, t) ==
    [cashback |-> EnrichKind(tbl, recs, "Cashback", t),
     exclusive |-> EnrichKind(tbl, recs, "Exclusive", t)]

\* variant: hasMore also when the page ends exactly at the total
Response_HasMoreLe(tbl, rows, userId, outletId, offerType, limit, page, t) ==
    LET total == Cardinality(Matching(rows, userId, outletId, offerType, t))
        recs == PageOf(Matching(rows, userId, outletId, offerType, t), page, limit)
    IN  IF Len(recs) = 0
        THEN [offers |-> [cashback |-> {}, exclusive |-> {}],
              total |-> 0, hasMore |-> FALSE, page |-> page, ttl |-> EMPTY_TTL]
        ELSE [offers |-> EnrichOffers(tbl, recs, t),
              total |-> total, hasMore |-> page * limit <= total,
              page |-> page, ttl |-> RESPONSE_TTL]

Response(tbl, rows, userId, outletId, offerType, limit, page, t) ==
    LET total == Cardinality(Matching(rows, userId, outletId, offerType, t))
        recs == PageOf(Matching(rows, userId, outletId, offerType, t), page, limit)
    IN  IF Len(recs) = 0
        THEN [offers |-> [cashback |-> {}, exclusive |-> {}],
              total |-> 0, hasMore |-> FALSE, page |-> page, ttl |-> EMPTY_TTL]
        ELSE [offers |-> EnrichOffers(tbl, recs, t),
              total |-> total, hasMore |-> page * limit < total,
              page |-> page, ttl |-> RESPONSE_TTL]

(***************************************************************************)
(* The offer-eligibility queue and EligibilityWorker.  A job is waiting,   *)
(* active, delayed, completed or failed.  An active job runs processJob:   *)
(* computeEligibility, one store call per step, then the cache             *)
(* invalidation.  Any store or cache call may throw, which fails the       *)
(* attempt.                                                                *)
(***************************************************************************)
MaxJobs == 2
MaxFailures == 1
MaxRetryJobs == 1
MaxReads == 2
MaxCreated == 1
MaxPoolJobs == 6

\* variant: one more slot
CONCURRENCY_Six == 5 + 1

CONCURRENCY == 5
ATTEMPTS == 3
BACKOFF_DELAY == 2

RECURSIVE Pow2(_)
Pow2(n) == IF n <= 0 THEN 1 ELSE 2 * Pow2(n - 1)

\* variant: the same delay before every retry
Backoff_Fixed(attemptsMade) == BACKOFF_DELAY

\* backoff: { type: 'exponential', delay: 2000 }
Backoff(attemptsMade) == Pow2(attemptsMade - 1) * BACKOFF_DELAY

\* variant: the cache is invalidated first, the eligibility computed after
ProcessJobPlan_InvalidateFirst == << "invalidate", "computeEligibility" >>

\* processJob: await computeEligibility(...), then await invalidate(...)
ProcessJobPlan == << "computeEligibility", "invalidate" >>

EntryPc(call) == IF call = "computeEligibility" THEN "getOfferDetails" ELSE "invalidate"

Idle ==
    [phase |-> 0, pc |-> "", offer |-> NoOffer, outs |-> << >>,
     newRecs |-> << >>, stmts |-> << >>, done |-> 0]

NewJob(e) ==
    [event |-> e, state |-> "waiting", attemptsMade |-> 0,
     delay |-> 0, readyAt |-> 0,
     returned |-> FALSE, invalidated |-> FALSE, aborted |-> 0, skipped |-> 0,
     raced |-> FALSE,
     run |-> Idle]

Active(j) == jobs[j].state = "active"

At(j, pc) == Active(j) /\ jobs[j].run.pc = pc

\* job j has read the offer descriptor and has not yet written
Computing(j) ==
    /\ Active(j)
    /\ jobs[j].run.pc \in {"findOutlets", "findCustomerTypes", "findExisting", "tx", "deleteMany"}

\* job j writes while another job of the same offer is between its reads
\* and its write
Races(j) ==
    \E k \in DOMAIN jobs :
        /\ k # j
        /\ jobs[k].event.offerId = jobs[j].event.offerId
        /\ Computing(k)

Failures == LET RECURSIVE Sum(_)
                Sum(n) == IF n = 0 THEN 0 ELSE jobs[n].attemptsMade + Sum(n - 1)
            IN  Sum(Len(jobs))

\* the call of the plan that follows the one just finished
Advance(job) ==
    IF job.run.phase < Len(ProcessJobPlan)
    THEN [job EXCEPT !.run = [Idle EXCEPT !.phase = job.run.phase + 1,
                                          !.pc = EntryPc(ProcessJobPlan[job.run.phase + 1])]]
    ELSE [job EXCEPT !.state = "completed", !.run = Idle]

\* the handler threw: retry after the backoff, or fail terminally
Thrown(job, t) ==
    LET n == job.attemptsMade + 1
    IN  IF n < ATTEMPTS
        THEN [job EXCEPT !.state = "delayed", !.attemptsMade = n,
                         !.delay = Backoff(n), !.readyAt = t + Backoff(n),
                         !.aborted = IF job.run.pc = "tx" THEN job.run.done ELSE 0,
                         !.run = Idle]
        ELSE [job EXCEPT !.state = "failed", !.attemptsMade = n,
                         !.aborted = IF job.run.pc = "tx" THEN job.run.done ELSE 0,
                         !.run = Idle]

\* eligibilityQueue.add('compute-eligibility', { offerChangeEvent, ... })
Add(e, maxJobs) ==
    /\ Len(jobs) < maxJobs
    /\ jobs' = Append(jobs, NewJob(e))
    /\ UNCHANGED <<storeVars, eligibility, nextId, now, edits, dirty, last, events, cache>>

\* the worker takes a waiting job when one of its slots is free
Start(j) ==
    /\ jobs[j].state = "waiting"
    /\ Cardinality({ k \in DOMAIN jobs : Active(k) }) < CONCURRENCY
    /\ jobs' = [jobs EXCEPT ![j] =
                  Advance([@ EXCEPT !.state = "active", !.returned = FALSE,
                                    !.invalidated = FALSE, !.aborted = 0,
                                    !.skipped = 0, !.raced = FALSE, !.run = Idle])]
    /\ UNCHANGED <<storeVars, eligibility, nextId, now, edits, dirty, last, events, cache>>

\* step 1 and 2: the offer descriptor, and whether the offer is live
StepGetOfferDetails(j) ==
    /\ At(j, "getOfferDetails")
    /\ LET e == jobs[j].event
           offer == GetOfferDetails(offers, loyaltyTier, e.offerId, e.offerType)
       IN  jobs' = [jobs EXCEPT ![j].run =
                      IF ~offer.found \/ ~offer.isActive \/ offer.deletedAt # NULL
                      THEN [@ EXCEPT !.pc = "deleteMany"]
                      ELSE [@ EXCEPT !.pc = "findOutlets", !.offer = offer]]
    /\ UNCHANGED <<storeVars, eligibility, nextId, now, edits, dirty, last, events, cache>>

\* step 3
StepFindOutlets(j) ==
    /\ At(j, "findOutlets")
    /\ LET outs == ActiveOutlets(outlet, jobs[j].event.merchantId)
       IN  jobs' = [jobs EXCEPT ![j].run =
                      IF Len(outs) = 0
                      THEN [@ EXCEPT !.pc = "deleteMany", !.offer = NoOffer]
                      ELSE [@ EXCEPT !.pc = "findCustomerTypes", !.outs = outs]]
    /\ UNCHANGED <<storeVars, eligibility, nextId, now, edits, dirty, last, events, cache>>

\* step 4 and 5
StepFindCustomerTypes(j) ==
    /\ At(j, "findCustomerTypes")
    /\ LET e == jobs[j].event
           r == jobs[j].run
       IN  jobs' = [jobs EXCEPT ![j].run =
                      [@ EXCEPT !.pc = "findExisting", !.offer = NoOffer, !.outs = << >>,
                                !.newRecs = NewEligibilityRecords(
                                    r.offer, e.offerId, e.offerType, e.merchantId,
                                    EligibleCustomerTypes(customerType, r.offer, e.merchantId),
                                    r.outs, now)]]
    /\ UNCHANGED <<storeVars, eligibility, nextId, now, edits, dirty, last, events, cache>>

\* step 6 and 7
StepFindExisting(j) ==
    /\ At(j, "findExisting")
    /\ LET e == jobs[j].event
           newRecs == jobs[j].run.newRecs
           existing == ExistingRecords(eligibility, e.offerId, e.offerType)
       IN  jobs' = [jobs EXCEPT ![j].run =
                      [@ EXCEPT !.pc = "tx", !.newRecs = << >>, !.done = 0,
                                !.stmts = TxStatements(ToCreate(newRecs, existing),
                                                       ToUpdate(newRecs, existing, now),
                                                       ToDelete(newRecs, existing))]]
    /\ UNCHANGED <<storeVars, eligibility, nextId, now, edits, dirty, last, events, cache>>

\* variant: the statement goes to the store outside the transaction
IssueOnPrisma(tbl, stmt, t) == ApplyStatement(tbl, stmt, t)

\* a statement issued on the transaction handle tx: nothing of it is in the
\* committed table before the commit
IssueOnTx(tbl, stmt, t) == tbl

\* step 8, one statement of the transaction
StepTxStatement(j) ==
    /\ At(j, "tx")
    /\ jobs[j].run.done < Len(jobs[j].run.stmts)
    /\ LET r == IssueOnTx([rows |-> eligibility, nextId |-> nextId, ok |-> TRUE],
                          jobs[j].run.stmts[jobs[j].run.done + 1], now)
       IN  /\ r.nextId <= MaxId + 1
           /\ eligibility' = r.rows
           /\ nextId' = r.nextId
    /\ jobs' = [jobs EXCEPT ![j].run.done = @ + 1]
    /\ UNCHANGED <<storeVars, now, edits, dirty, last, events, cache>>

\* the records handed to createMany by the statements of a transaction
RECURSIVE CreateData(_)
CreateData(stmts) ==
    IF stmts = << >> THEN << >>
    ELSE (IF Head(stmts).op = "createMany" THEN Head(stmts).data ELSE << >>)
            \o CreateData(Tail(stmts))

\* step 8, the commit: the statements take effect together; an update of a
\* row that is gone throws and rolls the transaction back.  skipped counts
\* the records createMany did not insert (every inserted row takes an id)
StepTxCommit(j) ==
    /\ At(j, "tx")
    /\ jobs[j].run.done = Len(jobs[j].run.stmts)
    /\ LET r == Transaction(eligibility, nextId, jobs[j].run.stmts, now)
       IN  /\ r.nextId <= MaxId + 1
           /\ eligibility' = r.rows
           /\ nextId' = r.nextId
           /\ jobs' = [jobs EXCEPT ![j] =
                         IF r.ok
                         THEN Advance([@ EXCEPT !.returned = TRUE, !.raced = Races(j),
                                                !.skipped = Len(CreateData(jobs[j].run.stmts))
                                                              - (r.nextId - nextId)])
                         ELSE Thrown(@, now)]
    /\ UNCHANGED <<storeVars, now, edits, dirty, last, events, cache>>

\* the early returns: deleteMany({ where: { offerId, offerType } })
StepDeleteMany(j) ==
    /\ At(j, "deleteMany")
    /\ eligibility' = DeleteManyOffer(eligibility, jobs[j].event.offerId,
                                      jobs[j].event.offerType)
    /\ jobs' = [jobs EXCEPT ![j] = Advance([@ EXCEPT !.returned = TRUE, !.raced = Races(j)])]
    /\ UNCHANGED <<storeVars, nextId, now, edits, dirty, last, events, cache>>

\* cacheService.invalidate(`offers:*:merchant:${merchantId}`)
StepInvalidate(j) ==
    /\ At(j, "invalidate")
    /\ cache' = Invalidate(cache, WorkerPattern(jobs[j].event.merchantId))
    /\ jobs' = [jobs EXCEPT ![j] = Advance([@ EXCEPT !.invalidated = TRUE])]
    /\ UNCHANGED <<storeVars, eligibility, nextId, now, edits, dirty, last, events>>

\* a store call or the cache call of the attempt throws
Throw(j, maxFailures) ==
    /\ Active(j)
    /\ Failures < maxFailures
    /\ jobs' = [jobs EXCEPT ![j] = Thrown(@, now)]
    /\ UNCHANGED <<storeVars, eligibility, nextId, now, edits, dirty, last, events, cache>>

\* variant: a delayed job is left in the delayed set
Promote_Never(j) ==
    /\ jobs[j].state = "delayed"
    /\ UNCHANGED vars

\* the backoff delay of a delayed job has elapsed
Promote(j) ==
    /\ jobs[j].state = "delayed"
    /\ now' = IF now < jobs[j].readyAt THEN jobs[j].readyAt ELSE now
    /\ jobs' = [jobs EXCEPT ![j].state = "waiting", ![j].delay = 0, ![j].readyAt = 0]
    /\ UNCHANGED <<storeVars, eligibility, nextId, edits, dirty, last, events, cache>>

(***************************************************************************)
(* getOffers(userId, outletId?, offerType?, limit, page), cache-aside.     *)
(***************************************************************************)
DEFAULT_LIMIT == 100
DEFAULT_PAGE == 1

\* the OffersResponse of a cache-miss computation
Payload(resp) ==
    [offers |-> resp.offers, total |-> resp.total,
     hasMore |-> resp.hasMore, page |-> resp.page]

\* what a cache-miss computation returns in the current state
Fresh(userId, outletId, offerType, limit, page) ==
    Payload(Response(offers, eligibility, userId, outletId, offerType, limit, page, now))

\* what getOffers returns in the current state: the cached payload on a
\* hit, the computed one on a miss
GetOffersResult(userId, outletId, offerType, limit, page) ==
    LET key == CacheKey(userId, outletId, offerType,
                        MerchantIds(customerType, userId), page, limit)
        cached == CacheGet(cache, key, now)
    IN  IF cached.hit THEN cached.value
        ELSE Fresh(userId, outletId, offerType, limit, page)

\* a hit returns and changes nothing; a miss caches what it computed
GetOffers(userId, outletId, offerType, limit, page) ==
    LET key == CacheKey(userId, outletId, offerType,
                        MerchantIds(customerType, userId), page, limit)
        resp == Response(offers, eligibility, userId, outletId, offerType, limit, page, now)
    IN  IF CacheGet(cache, key, now).hit
        THEN UNCHANGED vars
        ELSE /\ cache' = CacheSet(cache, key, Payload(resp), resp.ttl, userId, now)
             /\ UNCHANGED <<storeVars, eligibility, nextId, now, edits, dirty, last, events, jobs>>

\* a call of getOffers while the cache holds fewer than MaxReads entries
Read(userId, outletId, offerType, limit, page) ==
    /\ Cardinality(cache) < MaxReads
    /\ GetOffers(userId, outletId, offerType, limit, page)

\* Mutation.deactivateOffer(offerId): the Cashback row is switched off, the
\* rows of the offer are deleted, the cache of the merchant is invalidated
DeactivatePattern(merchantId) == "offers:*:merchants:*" \o merchantId \o "*"

DeactivateOffer(offerId) ==
    /\ \E o \in offers :
          /\ o.id = offerId /\ o.kind = "Cashback"
          /\ offers' = (offers \ {o}) \cup {[o EXCEPT !.isActive = FALSE]}
          /\ cache' = Invalidate(cache, DeactivatePattern(o.merchantId))
    /\ eligibility' = { r \in eligibility : r.offerId # offerId }
    /\ dirty' = Other
    /\ UNCHANGED <<loyaltyTier, outlet, customerType, nextId, now, edits, last, events, jobs>>

WorkerStep(j, maxFailures) ==
    \/ Start(j)
    \/ StepGetOfferDetails(j)
    \/ StepFindOutlets(j)
    \/ StepFindCustomerTypes(j)
    \/ StepFindExisting(j)
    \/ StepTxStatement(j)
    \/ StepTxCommit(j)
    \/ StepDeleteMany(j)
    \/ StepInvalidate(j)
    \/ Throw(j, maxFailures)
    \/ Promote(j)

\* a Cashback offer without a start date, or a Loyalty program
WorkerOffers ==
    { o \in CashbackRows : /\ o.eligibleCustomerTypes = {"Gold"}
                           /\ o.startDate = NULL /\ o.endDate # NULL }
      \cup LoyaltyRows

InitWorker ==
    /\ InitCommon
    /\ offers \in { {o} : o \in WorkerOffers }
    /\ loyaltyTier = IF \E o \in offers : o.kind = "Loyalty"
                     THEN { Tier("t1", "a1", "Gold", TRUE, NULL) } ELSE {}
    /\ events = { CreatedEvent(o) : o \in offers }

(***************************************************************************)
(* SpecWorker: the worker slots process the jobs of the queue in parallel. *)
(***************************************************************************)
NextWorker ==
    \/ \E e \in events : Add(e, MaxJobs)
    \/ \E j \in DOMAIN jobs : WorkerStep(j, MaxFailures)
    \/ \E i \in OfferIds : DeactivateOffer(i)

SpecWorker == InitWorker /\ [][NextWorker]_vars

(***************************************************************************)
(* SpecRetry: every attempt of a job may throw, up to the attempt ceiling. *)
(***************************************************************************)
NextRetry ==
    \/ \E e \in events : Add(e, MaxRetryJobs)
    \/ \E j \in DOMAIN jobs : WorkerStep(j, ATTEMPTS * Len(jobs))
    \/ \E i \in OfferIds : DeactivateOffer(i)

SpecRetry == InitWorker /\ [][NextRetry]_vars

(***************************************************************************)
(* SpecCache: readers call getOffers while the worker processes a job.     *)
(***************************************************************************)
NextCache ==
    \/ \E e \in events : Add(e, MaxRetryJobs)
    \/ \E j \in DOMAIN jobs : WorkerStep(j, MaxFailures)
    \/ \E i \in OfferIds : DeactivateOffer(i)
    \/ \E u \in Users : Read(u, "o1", "", DEFAULT_LIMIT, DEFAULT_PAGE)

SpecCache == InitWorker /\ [][NextCache]_vars

(***************************************************************************)
(* SpecPool: more jobs than the worker has slots.  The store has an active *)
(* offer and a deactivated one; the first job of the queue is for the      *)
(* active offer, the jobs behind it are for the deactivated one; no        *)
(* attempt throws.                                                         *)
(***************************************************************************)
PoolActive ==
    [id |-> "a2", kind |-> "Cashback", merchantId |-> "m1", isActive |-> TRUE,
     deletedAt |-> NULL, eligibleCustomerTypes |-> {"Gold"},
     startDate |-> 1, endDate |-> 3]

PoolInactive ==
    [id |-> "a1", kind |-> "Cashback", merchantId |-> "m2", isActive |-> FALSE,
     deletedAt |-> NULL, eligibleCustomerTypes |-> {"All"},
     startDate |-> 1, endDate |-> 3]

InitPool ==
    /\ InitCommon
    /\ offers = {PoolActive, PoolInactive}
    /\ loyaltyTier = {}
    /\ events = { CreatedEvent(o) : o \in offers }

PoolStep(j) ==
    \/ Start(j)
    \/ StepGetOfferDetails(j)
    \/ StepFindOutlets(j)
    \/ StepFindCustomerTypes(j)
    \/ StepFindExisting(j)
    \/ StepTxStatement(j)
    \/ StepTxCommit(j)
    \/ StepDeleteMany(j)
    \/ StepInvalidate(j)

NextPool ==
    \/ Add(CreatedEvent(IF Len(jobs) = 0 THEN PoolActive ELSE PoolInactive), MaxPoolJobs)
    \/ \E j \in DOMAIN jobs : PoolStep(j)

SpecPool == InitPool /\ [][NextPool]_vars

(***************************************************************************)
(* SpecTrigger: offers come into the store through Mutation.createOffer,   *)
(* which publishes their created event; the worker processes the jobs and  *)
(* any attempt may throw.                                                  *)
(***************************************************************************)
\* the ids the store gives to the offers it creates, in order
CreateIds == << "a1", "a2", "a3" >>

CreateInputs ==
    { [offerType |-> k, merchantId |-> "m1", eligibleCustomerTypes |-> ts,
       startDate |-> 1, endDate |-> 3] :
         k \in {"CASHBACK", "EXCLUSIVE", "LOYALTY"}, ts \in { {"Gold"}, {"All"} } }

\* variant: the event is put on the queue twice
Enqueue_Twice(queue, e) == Append(Append(queue, NewJob(e)), NewJob(e))

\* eligibilityQueue.add('compute-eligibility', { offerChangeEvent: e, ... })
Enqueue(queue, e) == Append(queue, NewJob(e))

\* createOffer: the row is created, its created event is put on the queue,
\* the offer is returned; any other offerType throws before anything is done
CreateOffer(input) ==
    IF input.offerType \in {"CASHBACK", "EXCLUSIVE"}
    THEN LET offer == [id |-> CreateIds[Cardinality(offers) + 1],
                       kind |-> IF input.offerType = "CASHBACK" THEN "Cashback" ELSE "Exclusive",
                       merchantId |-> input.merchantId, isActive |-> TRUE,
                       deletedAt |-> NULL,
                       eligibleCustomerTypes |-> input.eligibleCustomerTypes,
                       startDate |-> input.startDate, endDate |-> input.endDate]
         IN  /\ Cardinality(offers) < MaxCreated
             /\ Cardinality(offers) < Len(CreateIds)
             /\ offers' = offers \cup {offer}
             /\ jobs' = Enqueue(jobs, CreatedEvent(offer))
             /\ events' = events \cup {CreatedEvent(offer)}
             /\ dirty' = Other
             /\ UNCHANGED <<loyaltyTier, outlet, customerType, eligibility, nextId, now,
                            edits, last, cache>>
    ELSE UNCHANGED vars

InitTrigger ==
    /\ InitCommon
    /\ offers = {}
    /\ loyaltyTier = {}
    /\ events = {}

NextTrigger ==
    \/ \E input \in CreateInputs : CreateOffer(input)
    \/ \E j \in DOMAIN jobs : WorkerStep(j, ATTEMPTS * Len(jobs))
    \/ \E i \in Range(CreateIds) : DeactivateOffer(i)

SpecTrigger == InitTrigger /\ [][NextTrigger]_vars

(***************************************************************************)
(* SpecSeed: the queue as the two seed scripts fill it.  The first seed    *)
(* publishes the created event of a Cashback offer under offerType         *)
(* 'Cashback', the second one under 'CASHBACK', a label getOfferDetails    *)
(* does not know.  Each event is put on the queue once; any attempt may    *)
(* throw.                                                                  *)
(***************************************************************************)
SeedOffer ==
    [id |-> "a1", kind |-> "Cashback", merchantId |-> "m1", isActive |-> TRUE,
     deletedAt |-> NULL, eligibleCustomerTypes |-> {"Gold"},
     startDate |-> 1, endDate |-> 3]

\* offerChangeEvent of seed2.ts
Seed2Event(o) ==
    [eventType |-> "created", offerType |-> "CASHBACK",
     offerId |-> o.id, merchantId |-> o.merchantId]

InitSeed ==
    /\ InitCommon
    /\ offers = {SeedOffer}
    /\ loyaltyTier = {}
    /\ events = {CreatedEvent(SeedOffer), Seed2Event(SeedOffer)}

\* a seed script puts the event of its offer on the queue
Publish(e) ==
    /\ \A j \in DOMAIN jobs : jobs[j].event # e
    /\ Add(e, Len(jobs) + 1)

NextSeed ==
    \/ \E e \in events : Publish(e)
    \/ \E j \in DOMAIN jobs : WorkerStep(j, ATTEMPTS * Len(jobs))

SpecSeed == InitSeed /\ [][NextSeed]_vars

(***************************************************************************)
(* SpecLive: the created event of an offer is put on the queue once, every *)
(* attempt of its job may throw, and the worker keeps running: as long as  *)
(* a job is waiting with a slot free, is active and its pending call can   *)
(* return, or is delayed, the worker eventually makes one of these steps.  *)
(* That a call throws is never required.                                   *)
(***************************************************************************)
Progress(j) == PoolStep(j) \/ Promote(j)

NextLive ==
    \/ \E e \in events : Publish(e)
    \/ \E j \in DOMAIN jobs : WorkerStep(j, ATTEMPTS * Len(jobs))
    \/ \E i \in OfferIds : DeactivateOffer(i)

SpecLive ==
    /\ InitWorker
    /\ [][NextLive]_vars
    /\ WF_vars(\E j \in DOMAIN jobs : Progress(j))

(***************************************************************************)
(* SpecKey: readers call getOffers with different filters while the        *)
(* platform edits the customer types of the users.                         *)
(***************************************************************************)
\* getOffers(userId, outletId?, offerType?, limit, page) as the GraphQL
\* resolver passes it on: outletId and offerType are any strings
KeyQueries ==
    { [userId |-> q[1], outletId |-> q[2], offerType |-> q[3], limit |-> q[4], page |-> q[5]] :
        q \in { <<"u2", "", "", 100, 1>>, <<"u2", "all", "", 100, 1>>,
                <<"u2", "o1", "", 100, 1>>, <<"u2", "", "Cashback", 100, 1>>,
                <<"u2", "", "", 100, 2>>, <<"u2", "", "", 10, 1>>,
                <<"u1", "", "", 100, 1>> } }

\* the cache key getOffers builds for the call q when the CustomerType
\* table is cts
KeyOf(q, cts) ==
    CacheKey(q.userId, q.outletId, q.offerType, MerchantIds(cts, q.userId), q.page, q.limit)

InitKey ==
    /\ InitCommon
    /\ offers = {SeedOffer}
    /\ loyaltyTier = {}
    /\ events = {CreatedEvent(SeedOffer)}

NextKey ==
    \/ \E q \in KeyQueries : Read(q.userId, q.outletId, q.offerType, q.limit, q.page)
    \/ \E i \in DOMAIN customerType, t \in Types : SetCustomerType(i, t)
    \/ \E u \in Users, m \in Merchants, t \in Types : AddCustomerType(u, m, t)
    \/ \E i \in DOMAIN customerType : RemoveCustomerType(i)

SpecKey == InitKey /\ [][NextKey]_vars

(***************************************************************************)
(* SpecRead: readers page through the offers of a store in which the       *)
(* eligibility of one offer has been materialised and that nobody writes.  *)
(***************************************************************************)
\* the table a run at time t leaves for offer o, starting from no rows
Materialised(o, tiers, t) ==
    LET offer == GetOfferDetails({o}, tiers, o.id, o.kind)
        d == Diff(offer, o.id, o.kind, o.merchantId, InitCustomerTypes,
                  ActiveOutlets(InitOutlets, o.merchantId), {}, t)
    IN  Transaction({}, 1, TxStatements(d.toCreate, d.toUpdate, d.toDelete), t)

ReadOffers ==
    { o \in CashbackRows \cup ExclusiveRows :
        o.eligibleCustomerTypes \in { {"Gold"}, {"All"} } } \cup LoyaltyRows

InitRead ==
    /\ outlet = InitOutlets
    /\ customerType = InitCustomerTypes
    /\ offers \in { {o} : o \in ReadOffers }
    /\ loyaltyTier = IF \E o \in offers : o.kind = "Loyalty"
                     THEN { Tier("t1", "a1", "Gold", TRUE, NULL) } ELSE {}
    /\ \E o \in offers :
          /\ eligibility = Materialised(o, loyaltyTier, 0).rows
          /\ nextId = Materialised(o, loyaltyTier, 0).nextId
    /\ now = 0
    /\ edits = 0
    /\ dirty = Clean
    /\ last = NoRun
    /\ jobs = << >>
    /\ cache = {}
    /\ events = { CreatedEvent(o) : o \in offers }

\* the ttl of the short-lived entries goes by
Elapse ==
    /\ now <= MaxNow
    /\ now' = now + EMPTY_TTL
    /\ UNCHANGED <<storeVars, eligibility, nextId, edits, dirty, last, events, jobs, cache>>

\* the calls of the readers: a customer of m1 pages through the offers,
\* customers ask at an outlet, and so does a user the store does not know
Query(u, o, l, p) == [userId |-> u, outletId |-> o, offerType |-> "", limit |-> l, page |-> p]

ReadQueries ==
    { Query("u1", "", 1, 1), Query("u1", "", 1, 2), Query("u1", "", 1, 3),
      Query("u1", "", 2, 1), Query("u1", "o1", 2, 1), Query("u2", "o1", 2, 1),
      Query("u9", "o1", 2, 1), Query("u9", "", 1, 1),
      [Query("u1", "", 2, 1) EXCEPT !.offerType = "Cashback"],
      [Query("u1", "o2", 2, 1) EXCEPT !.offerType = "Exclusive"] }

NextRead ==
    \/ \E q \in ReadQueries : Read(q.userId, q.outletId, q.offerType, q.limit, q.page)
    \/ Tick
    \/ Elapse

SpecRead == InitRead /\ [][NextRead]_vars

(***************************************************************************)
(* SpecJoin: readers call getOffers on a store that holds one offer of     *)
(* each kind at merchant m1, each with its own dates, and the eligibility  *)
(* rows the runs for the three offers have left; nobody writes the store.  *)
(***************************************************************************)
\* the Cashback offer, the Exclusive offer and the Loyalty program, in the
\* order of their runs
JoinOffers ==
    << [id |-> "a1", kind |-> "Cashback", merchantId |-> "m1", isActive |-> TRUE,
        deletedAt |-> NULL, eligibleCustomerTypes |-> {"Gold"},
        startDate |-> NULL, endDate |-> 3],
       [id |-> "a2", kind |-> "Exclusive", merchantId |-> "m1", isActive |-> TRUE,
        deletedAt |-> NULL, eligibleCustomerTypes |-> {"All"},
        startDate |-> 1, endDate |-> 5],
       [id |-> "a3", kind |-> "Loyalty", merchantId |-> "m1", isActive |-> TRUE,
        deletedAt |-> NULL, eligibleCustomerTypes |-> {},
        startDate |-> NULL, endDate |-> NULL] >>

\* the table the runs for the offers os leave, one run after the other, at
\* time t, on the table tbl
RECURSIVE MaterialisedAll(_, _, _, _)
MaterialisedAll(tbl, os, tiers, t) ==
    IF os = << >> THEN tbl
    ELSE LET o == Head(os)
             offer == GetOfferDetails({o}, tiers, o.id, o.kind)
             d == Diff(offer, o.id, o.kind, o.merchantId, InitCustomerTypes,
                       ActiveOutlets(InitOutlets, o.merchantId), tbl.rows, t)
         IN  MaterialisedAll(
                Transaction(tbl.rows, tbl.nextId,
                            TxStatements(d.toCreate, d.toUpdate, d.toDelete), t),
                Tail(os), tiers, t)

InitJoin ==
    /\ outlet = InitOutlets
    /\ customerType = InitCustomerTypes
    /\ offers = Range(JoinOffers)
    /\ loyaltyTier = { Tier("t1", "a3", "Gold", TRUE, NULL) }
    /\ LET tbl == MaterialisedAll([rows |-> {}, nextId |-> 1, ok |-> TRUE],
                                  JoinOffers, loyaltyTier, 0)
       IN  eligibility = tbl.rows /\ nextId = tbl.nextId
    /\ now = 0
    /\ edits = 0
    /\ dirty = Clean
    /\ last = NoRun
    /\ jobs = << >>
    /\ cache = {}
    /\ events = { CreatedEvent(o) : o \in offers }

JoinQueries ==
    { Query("u1", "", 100, 1), Query("u1", "o1", 100, 1), Query("u1", "", 2, 1),
      Query("u1", "", 2, 2), Query("u1", "", 2, 3), Query("u2", "o1", 100, 1),
      [Query("u1", "", 100, 1) EXCEPT !.offerType = "Loyalty"] }

NextJoin ==
    \/ \E q \in JoinQueries : Read(q.userId, q.outletId, q.offerType, q.limit, q.page)
    \/ Tick
    \/ Elapse

SpecJoin == InitJoin /\ [][NextJoin]_vars

(***************************************************************************)
(* SpecTwo: two offers of one merchant, one event each, processed by the   *)
(* worker slots in parallel.  The first offer has rows from an earlier run *)
(* and has since been deactivated or given a later end date; the second    *)
(* offer, a Cashback or an Exclusive one, has no row yet.  No attempt      *)
(* throws.                                                                 *)
(***************************************************************************)
\* the rows the run for the first offer left before the offer was edited
TwoStart == Materialised(SeedOffer, {}, 0)

InitTwo ==
    /\ outlet = InitOutlets
    /\ customerType = InitCustomerTypes
    /\ \E a \in { [SeedOffer EXCEPT !.isActive = FALSE], [SeedOffer EXCEPT !.endDate = 5] },
          k \in {"Cashback", "Exclusive"} :
          offers = { a, [id |-> "a2", kind |-> k, merchantId |-> "m1",
                         isActive |-> TRUE, deletedAt |-> NULL,
                         eligibleCustomerTypes |-> {"All"},
                         startDate |-> 1, endDate |-> 3] }
    /\ loyaltyTier = {}
    /\ eligibility = TwoStart.rows
    /\ nextId = TwoStart.nextId
    /\ now = 0
    /\ edits = 0
    /\ dirty = Clean
    /\ last = NoRun
    /\ jobs = << >>
    /\ cache = {}
    /\ events = { CreatedEvent(o) : o \in offers }

NextTwo ==
    \/ \E e \in events : Publish(e)
    \/ \E j \in DOMAIN jobs : PoolStep(j)

SpecTwo == InitTwo /\ [][NextTwo]_vars

\* computeEligibility for the event e, run alone on the table tbl
RunOn(tbl, e) ==
    LET offer == GetOfferDetails(offers, loyaltyTier, e.offerId, e.offerType)
        outs  == ActiveOutlets(outlet, e.merchantId)
    IN  IF ~offer.found \/ ~offer.isActive \/ offer.deletedAt # NULL \/ Len(outs) = 0
        THEN [rows |-> DeleteManyOffer(tbl.rows, e.offerId, e.offerType),
              nextId |-> tbl.nextId, ok |-> TRUE]
        ELSE LET d == Diff(offer, e.offerId, e.offerType, e.merchantId,
                           customerType, outs, tbl.rows, now)
             IN  Transaction(tbl.rows, tbl.nextId,
                             TxStatements(d.toCreate, d.toUpdate, d.toDelete), now)

\* rows without the ids the table assigned
Unnumbered(rows) ==
    { [userId |-> r.userId, outletId |-> r.outletId, offerType |-> r.offerType,
       offerId |-> r.offerId, merchantId |-> r.merchantId,
       isEligible |-> r.isEligible, validFrom |-> r.validFrom,
       validUntil |-> r.validUntil, lastUpdated |-> r.lastUpdated,
       createdAt |-> r.createdAt] : r \in rows }

(***************************************************************************)
(* Vocabulary of the properties, stated on the store itself.               *)
(***************************************************************************)
\* the rows stored for one offer, and their (userId, outletId) pairs
RowsOf(offerId, offerType) ==
    { r \in eligibility : r.offerId = offerId /\ r.offerType = offerType }

PairsOf(offerId, offerType) ==
    { <<r.userId, r.outletId>> : r \in RowsOf(offerId, offerType) }

\* the offer row the last run was about, if the store has it
LastOffers == { o \in offers : o.id = last.offerId /\ o.kind = last.offerType }

\* the eligible customer types of an offer row (Loyalty: from its tiers)
EligibleSet(o) ==
    IF o.kind = "Loyalty"
    THEN { t.minCustomerType :
             t \in { x \in loyaltyTier : /\ x.loyaltyProgramId = o.id
                                         /\ x.isActive /\ x.deletedAt = NULL } }
    ELSE o.eligibleCustomerTypes

ActiveOutletIds(m) ==
    { outlet[i].id : i \in { k \in DOMAIN outlet : outlet[k].merchantId = m /\ outlet[k].isActive } }

UsersAt(m) == { c.userId : c \in { x \in Range(customerType) : x.merchantId = m } }

MatchingUsers(o) ==
    { c.userId : c \in { x \in Range(customerType) :
                           /\ x.merchantId = o.merchantId
                           /\ ("All" \in EligibleSet(o) \/ x.type \in EligibleSet(o)) } }

Live(o) == o.isActive /\ o.deletedAt = NULL /\ ActiveOutletIds(o.merchantId) # {}

\* the last run is complete and the store is as that run found it
Settled == last.ran /\ dirty.what = "clean"

\* the merchants at which a user has a customer-type row
MerchantSet(cts, userId) ==
    { c.merchantId : c \in { x \in Range(cts) : x.userId = userId } }

\* the cache holds a live entry under the key of the call q
IsHit(q) ==
    CacheGet(cache, CacheKey(q.userId, q.outletId, q.offerType,
                             MerchantIds(customerType, q.userId), q.page, q.limit), now).hit

(***************************************************************************)
(* C1: running computeEligibility twice in a row for the same event, with  *)
(* no change to the store in between, computes an empty toCreate, toUpdate *)
(* and toDelete the second time and leaves every row unchanged.            *)
(***************************************************************************)
C1_Idempotent ==
    last.repeat =>
        /\ last.created = 0 /\ last.updated = 0 /\ last.deleted = 0
        /\ last.sameRows

(***************************************************************************)
(* C2: after a run for an active, non-deleted offer whose merchant has an  *)
(* active outlet, the (userId, outletId) pairs stored for the offer are    *)
(* exactly {users with a matching customer type at the merchant} x         *)
(* {active outlets of the merchant}, whatever rows existed before.         *)
(***************************************************************************)
C2_Completeness ==
    Settled =>
        \A o \in LastOffers :
            (Live(o) /\ last.merchantId = o.merchantId) =>
                PairsOf(o.id, o.kind) = MatchingUsers(o) \X ActiveOutletIds(o.merchantId)

\* a run that removed rows that existed before, kept others, and left a
\* customer of the merchant without a row
C2_Witness ==
    /\ Settled /\ last.path = "diff" /\ last.deleted > 0
    /\ \E o \in LastOffers :
          /\ Live(o)
          /\ PairsOf(o.id, o.kind) # {}
          /\ UsersAt(o.merchantId) \ MatchingUsers(o) # {}

C4_InvalidationCovers ==
    [][ \A j \in DOMAIN jobs :
          (Active(j) /\ jobs'[j].state = "completed") =>
              \A c \in cache' :
                  now' < c.expires => c.userId \notin UsersAt(jobs[j].event.merchantId)
      ]_vars

(***************************************************************************)
(* C5: an attempt of processJob is at its cache invalidation, or has       *)
(* issued it, only when its computeEligibility has returned; an attempt    *)
(* whose computeEligibility threw has issued no invalidation.              *)
(***************************************************************************)
C5_InvalidateAfterCommit ==
    \A j \in DOMAIN jobs :
        /\ (At(j, "invalidate") \/ jobs[j].invalidated) => jobs[j].returned
        /\ (jobs[j].state \in {"delayed", "failed"} /\ ~jobs[j].returned)
              => ~jobs[j].invalidated

\* one job completed with its invalidation issued, another one threw inside
\* computeEligibility and waits for its retry
C5_Witness ==
    \E j, k \in DOMAIN jobs :
        /\ jobs[j].state = "completed" /\ jobs[j].returned /\ jobs[j].invalidated
        /\ jobs[k].state = "delayed" /\ ~jobs[k].returned /\ ~jobs[k].invalidated

(***************************************************************************)
(* C6: no two jobs for the same offerId are at the same time between the   *)
(* first read of computeEligibility and the end of its write.              *)
(***************************************************************************)
C6_Serialized ==
    LET InRun(j) == /\ Active(j)
                    /\ jobs[j].run.pc \in {"findOutlets", "findCustomerTypes",
                                           "findExisting", "tx", "deleteMany"}
    IN  \A j, k \in DOMAIN jobs :
            (j # k /\ jobs[j].event.offerId = jobs[k].event.offerId)
                => ~(InRun(j) /\ InRun(k))

(***************************************************************************)
(* C7: a step of a run inside its transaction that is not the successful   *)
(* commit (a statement issued, a statement that fails, a commit that       *)
(* fails) leaves the committed eligibility rows, which are what getOffers  *)
(* reads, exactly as they were.                                            *)
(***************************************************************************)
C7_Atomic ==
    [][ \A j \in DOMAIN jobs :
          (At(j, "tx") /\ jobs'[j] # jobs[j] /\ ~jobs'[j].returned)
              => eligibility' = eligibility
      ]_vars

\* an attempt failed inside the transaction after it had issued statements
C7_Witness ==
    \E j \in DOMAIN jobs :
        /\ jobs[j].state \in {"delayed", "failed"}
        /\ jobs[j].aborted > 0

(***************************************************************************)
(* C8: an attempt that throws is the job's 1st, 2nd or 3rd; after the 1st  *)
(* the job is delayed by 2 s and after the 2nd by 4 s, and it is taken up  *)
(* again no earlier than that; after the 3rd the job is failed, and a      *)
(* failed job never changes again.                                         *)
(***************************************************************************)
C8_Retry ==
    [][ \A j \in DOMAIN jobs :
          /\ jobs'[j].attemptsMade <= 3
          /\ jobs'[j].state = "failed" => jobs'[j].attemptsMade = 3
          /\ jobs[j].state = "failed" => jobs'[j] = jobs[j]
          /\ jobs'[j].attemptsMade # jobs[j].attemptsMade =>
                /\ Active(j)
                /\ jobs'[j].attemptsMade = jobs[j].attemptsMade + 1
                /\ IF jobs'[j].attemptsMade < 3
                   THEN /\ jobs'[j].state = "delayed"
                        /\ jobs'[j].delay = 2 * Pow2(jobs'[j].attemptsMade - 1)
                        /\ jobs'[j].readyAt = now + jobs'[j].delay
                   ELSE jobs'[j].state = "failed"
          /\ (Active(j) /\ jobs'[j].state \in {"delayed", "failed"})
                => jobs'[j].attemptsMade = jobs[j].attemptsMade + 1
          /\ (jobs[j].state = "delayed" /\ jobs'[j] # jobs[j]) =>
                /\ jobs'[j].state = "waiting"
                /\ jobs'[j].attemptsMade = jobs[j].attemptsMade
                /\ now' >= jobs[j].readyAt
      ]_vars

\* a job that failed three times and is failed terminally
C8_Witness ==
    \E j \in DOMAIN jobs :
        jobs[j].state = "failed" /\ jobs[j].attemptsMade = 3

(***************************************************************************)
(* C11: on a store that nobody writes, whenever getOffers would be served  *)
(* from the cache, the payload it returns equals the payload a cache-miss  *)
(* computation for the same userId, outletId, offerType, page and limit    *)
(* produces at that moment.                                                *)
(***************************************************************************)
C11_HitEqualsFresh ==
    \A q \in ReadQueries :
        IsHit(q) => GetOffersResult(q.userId, q.outletId, q.offerType, q.limit, q.page)
                      = Fresh(q.userId, q.outletId, q.offerType, q.limit, q.page)

C13_EndToEnd ==
    \A j \in DOMAIN jobs : \A c \in offers :
        ( /\ jobs[j].state = "completed"
          /\ jobs[j].event = CreatedEvent(c)
          /\ c.kind = "Cashback" /\ c.isActive /\ c.deletedAt = NULL
          /\ (c.startDate = NULL \/ c.startDate <= now)
          /\ (c.endDate = NULL \/ now <= c.endDate) )
        => \A u \in MatchingUsers(c) : \A o \in ActiveOutletIds(c.merchantId) :
              LET r == GetOffersResult(u, o, "", DEFAULT_LIMIT, DEFAULT_PAGE)
              IN  /\ r.offers.exclusive = {}
                  /\ Cardinality(r.offers.cashback) = 1
                  /\ \A x \in r.offers.cashback :
                        x.offerType = "Cashback" /\ x.merchantId = c.merchantId
                  /\ r.total = 1

C16_OnlyWriter ==
    [][ eligibility' # eligibility =>
          \E j \in DOMAIN jobs :
              /\ At(j, "tx") \/ At(j, "deleteMany")
              /\ jobs'[j] # jobs[j]
      ]_vars

(***************************************************************************)
(* C17: in every reachable state, however the jobs of the worker           *)
(* interleave, no two rows of the eligibility table have the same          *)
(* (userId, outletId, offerType, offerId).                                 *)
(***************************************************************************)
C17_Unique ==
    \A a, b \in eligibility : SameUnique(a, b) => a = b

\* a job has issued, and is about to commit, a createMany with a record
\* whose (userId, outletId, offerType, offerId) another job has stored since
\* this one read the table
C17_Witness ==
    \E k \in DOMAIN jobs :
        /\ At(k, "tx")
        /\ jobs[k].run.done = Len(jobs[k].run.stmts)
        /\ \E n \in DOMAIN jobs[k].run.stmts :
              /\ jobs[k].run.stmts[n].op = "createMany"
              /\ \E i \in DOMAIN jobs[k].run.stmts[n].data : \E x \in eligibility :
                    SameUnique(x, jobs[k].run.stmts[n].data[i])

(***************************************************************************)
(* C18: every row of the eligibility table has validFrom <= validUntil, in *)
(* every reachable state, also when the start date or the end date of its  *)
(* offer is absent and the row takes now, or now + 365 days, instead.      *)
(***************************************************************************)
C18_WindowOrdered ==
    \A r \in eligibility : r.validFrom <= r.validUntil

(***************************************************************************)
(* C19: every row of the eligibility table has isEligible = true, in every *)
(* reachable state; a user who is not eligible has no row.                 *)
(***************************************************************************)
C19_AlwaysEligible ==
    \A r \in eligibility : r.isEligible = TRUE

\* a row that was created by one run and rewritten by a later one
C19_Witness ==
    \E r \in eligibility : r.lastUpdated > r.createdAt

(***************************************************************************)
(* C20: at every moment at most 5 jobs are active; a waiting job becomes   *)
(* active only when fewer than 5 are, so the jobs beyond the 5th wait.     *)
(***************************************************************************)
C20_BoundedPool ==
    [][ /\ Cardinality({ j \in DOMAIN jobs' : jobs'[j].state = "active" }) <= 5
        /\ \A j \in DOMAIN jobs :
              (jobs[j].state = "waiting" /\ jobs'[j].state = "active")
                  => Cardinality({ k \in DOMAIN jobs : jobs[k].state = "active" }) < 5
      ]_vars

\* five jobs, of two different offers, are active inside computeEligibility
\* and a sixth one waits
C20_Witness ==
    /\ Cardinality({ j \in DOMAIN jobs : Active(j) }) = 5
    /\ \E j, k \in DOMAIN jobs :
          /\ Active(j) /\ Active(k)
          /\ jobs[j].event.offerId # jobs[k].event.offerId
          /\ jobs[j].run.pc \notin {"getOfferDetails", "invalidate"}
          /\ jobs[k].run.pc \notin {"getOfferDetails", "invalidate"}
    /\ \E j \in DOMAIN jobs : jobs[j].state = "waiting"

(***************************************************************************)
(* C21: a job whose event carries an offerType other than 'Cashback',      *)
(* 'Exclusive' and 'Loyalty' is never retried: it makes at most one        *)
(* attempt, so it is never delayed for a retry and no attempt of it        *)
(* follows a failed one.                                                   *)
(***************************************************************************)
C21_NeverRetried ==
    \A j \in DOMAIN jobs :
        jobs[j].event.offerType \notin Kinds =>
            /\ jobs[j].state # "delayed"
            /\ jobs[j].state \in {"waiting", "active"} => jobs[j].attemptsMade = 0

(***************************************************************************)
(* C22: whenever a job is about to commit its transaction and every row    *)
(* its update statements name is still in the table, the commit succeeds,  *)
(* also when records of its createMany collide with rows another job has   *)
(* stored in the meantime; after it every record of the createMany has its *)
(* row: the colliding ones the row that was there, the others a new one.   *)
(***************************************************************************)
C22_DuplicatesSkipped ==
    \A j \in DOMAIN jobs :
        (At(j, "tx") /\ jobs[j].run.done = Len(jobs[j].run.stmts)) =>
            LET stmts == jobs[j].run.stmts
                r == Transaction(eligibility, nextId, stmts, now)
                updatesFound ==
                    \A n \in DOMAIN stmts :
                        stmts[n].op = "update" =>
                            \E x \in eligibility : x.id = stmts[n].rec.id
            IN  updatesFound =>
                    /\ r.ok
                    /\ \A i \in DOMAIN CreateData(stmts) :
                          \E x \in r.rows : SameUnique(x, CreateData(stmts)[i])
                    /\ \A x \in eligibility :
                          (\A n \in DOMAIN stmts :
                              stmts[n].op = "deleteMany" => x.id \notin stmts[n].ids)
                            => \E y \in r.rows : y.id = x.id

\* a job has committed a transaction whose createMany skipped records, and
\* its computeEligibility returned
C22_Witness ==
    \E j \in DOMAIN jobs :
        /\ jobs[j].skipped > 0
        /\ jobs[j].returned
        /\ jobs[j].state \in {"active", "completed"}

(***************************************************************************)
(* C23: for a call made before a step and a call made after it, the cache  *)
(* keys are equal when the two calls have the same userId, outletId,       *)
(* offerType, page and limit and the user has customer-type rows at the    *)
(* same set of merchants, and different when a filter or the merchant set  *)
(* differs.                                                                *)
(***************************************************************************)
C23_KeyFunction ==
    [][ \A q1, q2 \in KeyQueries :
          LET same == /\ q1 = q2
                      /\ MerchantSet(customerType, q1.userId)
                            = MerchantSet(customerType', q2.userId)
          IN  same <=> KeyOf(q1, customerType) = KeyOf(q2, customerType')
      ]_vars

(***************************************************************************)
(* C24: two jobs of one offer that different slots process at the same     *)
(* time are not kept apart, and a lost update is reachable: both jobs      *)
(* completed, one of them wrote while the other was between its reads and  *)
(* its write, and the stored rows of the offer are not the desired set of  *)
(* the offer as it is now (C24_Witness).  What the store guarantees is     *)
(* only this: as long as the offer has not changed since the jobs were     *)
(* published, the jobs, however they interleave, converge: once all are    *)
(* completed the offer has exactly one row per desired (user, outlet)      *)
(* pair.                                                                   *)
(***************************************************************************)
C24_LostUpdate ==
    ( /\ dirty.what = "clean"
      /\ jobs # << >>
      /\ \A j \in DOMAIN jobs : jobs[j].state = "completed" )
    => \A o \in offers :
          /\ PairsOf(o.id, o.kind) = MatchingUsers(o) \X ActiveOutletIds(o.merchantId)
          /\ Cardinality(RowsOf(o.id, o.kind))
                = Cardinality(MatchingUsers(o) \X ActiveOutletIds(o.merchantId))

\* two completed jobs of a deactivated offer, one of which wrote while the
\* other was computing, have left rows for the offer
C24_Witness ==
    \E j, k \in DOMAIN jobs : \E o \in offers :
        /\ j # k
        /\ jobs[j].event.offerId = o.id /\ jobs[k].event.offerId = o.id
        /\ jobs[j].state = "completed" /\ jobs[k].state = "completed"
        /\ jobs[j].raced
        /\ ~o.isActive
        /\ RowsOf(o.id, o.kind) # {}

(***************************************************************************)
(* C25: when the invalidation step of a job has finished, a read by a user *)
(* who has a customer-type row at the merchant of the job is not served a  *)
(* response that was computed before the commit of the job: what getOffers *)
(* returns to that user is what a computation on the committed rows gives. *)
(***************************************************************************)
C25_NoStaleAfterInvalidate ==
    [][ \A j \in DOMAIN jobs :
          (At(j, "invalidate") /\ jobs'[j].invalidated) =>
              \A u \in UsersAt(jobs[j].event.merchantId) :
                  GetOffersResult(u, "o1", "", DEFAULT_LIMIT, DEFAULT_PAGE)'
                    = Fresh(u, "o1", "", DEFAULT_LIMIT, DEFAULT_PAGE)'
      ]_vars

(***************************************************************************)
(* C26: every job put on the queue eventually is completed or failed, if   *)
(* the worker keeps running and every call of an attempt returns or        *)
(* throws: no job stays waiting, active or delayed forever.                *)
(***************************************************************************)
C26_Terminates ==
    (jobs # << >>)
        ~> (jobs # << >> /\ \A j \in DOMAIN jobs : jobs[j].state \in {"completed", "failed"})

\* a job has been through a failed attempt and its backoff and is at work
\* again
C26_Witness ==
    \E j \in DOMAIN jobs :
        /\ jobs[j].state = "active"
        /\ jobs[j].attemptsMade = 2

(***************************************************************************)
(* C27: whatever the store holds when a run reaches its diff, the          *)
(* statements of its transaction come in the order deleteMany, update,     *)
(* createMany; no row id is in both toDelete and toUpdate, and no          *)
(* (userId, outletId) key of toCreate is the key of a row in toDelete or   *)
(* toUpdate: no row is both updated and deleted by one run.                *)
(***************************************************************************)
C27_OrderedDisjoint ==
    \A i \in OfferIds, k \in Kinds, m \in Merchants :
        Run(i, k, m).path = "diff" =>
            LET r == Run(i, k, m)
                existing == ExistingRecords(eligibility, i, k)
                ids(recs) == { recs[n].id : n \in DOMAIN recs }
                touched == { Key(existing[n]) :
                               n \in { x \in DOMAIN existing :
                                         existing[x].id \in ids(r.toDelete) \cup ids(r.toUpdate) } }
                stmts == TxStatements(r.toCreate, r.toUpdate, r.toDelete)
                rank(op) == CASE op = "deleteMany" -> 1 [] op = "update" -> 2
                              [] op = "createMany" -> 3
            IN  /\ ids(r.toDelete) \cap ids(r.toUpdate) = {}
                /\ KeySet(r.toCreate) \cap touched = {}
                /\ \A a, b \in DOMAIN stmts : a < b => rank(stmts[a].op) <= rank(stmts[b].op)
                /\ Len(stmts) >= (IF Len(r.toDelete) > 0 THEN 1 ELSE 0) + Len(r.toUpdate)
                                   + (IF Len(r.toCreate) > 0 THEN 1 ELSE 0)

\* a run that deleted rows of the offer and updated others
C27_Witness ==
    /\ last.ran /\ last.path = "diff"
    /\ last.deleted > 0 /\ last.updated > 0

(***************************************************************************)
(* C28: whenever a call of getOffers would be a cache miss, the total of   *)
(* the response it computes is the number of rows of the user that are     *)
(* eligible, valid now and match outletId and offerType when given,        *)
(* whatever the page, a page past the last matching row included.          *)
(***************************************************************************)
C28_TotalIsCount ==
    \A q \in ReadQueries :
        ~IsHit(q) =>
            Fresh(q.userId, q.outletId, q.offerType, q.limit, q.page).total
              = Cardinality(Matching(eligibility, q.userId, q.outletId, q.offerType, now))

(***************************************************************************)
(* C29: a call of getOffers changes the cache only on a miss, and then by  *)
(* exactly one entry: the entry under the key of the call, which holds the *)
(* computed payload and lives 60 s when the fetched page has no row and    *)
(* 300 s otherwise; every other entry stays as it is.  A call that hits    *)
(* leaves the cache alone and returns the payload of the stored entry.     *)
(***************************************************************************)
C29_OneEntryPerMiss ==
    [][ /\ cache' # cache =>
              \E q \in ReadQueries :
                  LET key == KeyOf(q, customerType)
                      rows == PageOf(Matching(eligibility, q.userId, q.outletId,
                                              q.offerType, now), q.page, q.limit)
                  IN  /\ ~IsHit(q)
                      /\ { c \in cache' : c.key # key } = { c \in cache : c.key # key }
                      /\ Cardinality({ c \in cache' : c.key = key }) = 1
                      /\ \A c \in cache' :
                            c.key = key =>
                                /\ c.expires = now + (IF Len(rows) = 0 THEN 60 ELSE 300)
                                /\ JsonParse(c.data)
                                      = Fresh(q.userId, q.outletId, q.offerType, q.limit, q.page)
        /\ \A q \in ReadQueries :
              IsHit(q) =>
                  \E c \in cache :
                      /\ c.key = KeyOf(q, customerType)
                      /\ GetOffersResult(q.userId, q.outletId, q.offerType, q.limit, q.page)
                            = JsonParse(c.data)
      ]_vars

\* the cache holds a response with offers that lives until 300 and an empty
\* one that lives until 60, and calls for both hit
C29_Witness ==
    \E c, d \in cache :
        /\ c.expires = 300 /\ JsonParse(c.data).offers.cashback # {}
        /\ d.expires = 60 /\ JsonParse(d.data).offers.cashback = {}
        /\ JsonParse(d.data).offers.exclusive = {}
        /\ now > 0 /\ now < 60

(***************************************************************************)
(* C30: every offer of a response that getOffers computes on a miss has an *)
(* eligibility row behind it: a row of the userId of the call, for that    *)
(* offer id and offer type, with isEligible true and validFrom <= now <=   *)
(* validUntil, at the outlet of the call when one is given and of the      *)
(* offerType of the call when one is given; the offer carries the window   *)
(* of such a row.  A row outside its window gives no offer.                *)
(***************************************************************************)
C30_OnlyValidRows ==
    \A q \in ReadQueries :
        ~IsHit(q) =>
            LET r == Fresh(q.userId, q.outletId, q.offerType, q.limit, q.page)
            IN  \A x \in r.offers.cashback \cup r.offers.exclusive :
                    \E row \in eligibility :
                        /\ row.userId = q.userId
                        /\ row.offerId = x.id /\ row.offerType = x.offerType
                        /\ row.isEligible
                        /\ row.validFrom <= now /\ now <= row.validUntil
                        /\ q.outletId # "" => row.outletId = q.outletId
                        /\ q.offerType # "" => row.offerType = q.offerType
                        /\ x.validFrom = ToISOString(row.validFrom)
                        /\ x.validUntil = ToISOString(row.validUntil)

\* a call of u1 made at time 0, before the rows of u1 were valid, was
\* answered without offers, and a call made at time 1 with the offer
C30_Witness ==
    \E c, d \in cache :
        /\ c.userId = "u1" /\ d.userId = "u1"
        /\ c.expires = 60 /\ JsonParse(c.data).offers.cashback = {}
        /\ JsonParse(c.data).offers.exclusive = {}
        /\ d.expires = 301
        /\ JsonParse(d.data).offers.cashback \cup JsonParse(d.data).offers.exclusive # {}
        /\ \E row \in eligibility : row.userId = "u1" /\ row.validFrom = 1

C32_EveryKindContributes ==
    \A q \in JoinQueries :
        ~IsHit(q) =>
            LET recs == PageOf(Matching(eligibility, q.userId, q.outletId, q.offerType, now),
                               q.page, q.limit)
                r == Fresh(q.userId, q.outletId, q.offerType, q.limit, q.page)
            IN  \A n \in DOMAIN recs :
                    (\E o \in offers : /\ o.id = recs[n].offerId
                                        /\ o.kind = recs[n].offerType
                                        /\ o.isActive)
                        => \E x \in r.offers.cashback \cup r.offers.exclusive :
                               x.id = recs[n].offerId

(***************************************************************************)
(* C33: after a run for a live Loyalty program the rows of the program are *)
(* those of the users whose customer type at the merchant is the           *)
(* minCustomerType of a tier of the program that is active and not         *)
(* soft-deleted, at every active outlet: a user whose type is named only   *)
(* by inactive or deleted tiers has no row, and a program without an       *)
(* active tier has no row at all.                                          *)
(***************************************************************************)
C33_LoyaltyTiers ==
    Settled =>
        \A o \in LastOffers :
            (o.kind = "Loyalty" /\ Live(o) /\ last.merchantId = o.merchantId) =>
                LET live == { x \in loyaltyTier : /\ x.loyaltyProgramId = o.id
                                                   /\ x.isActive
                                                   /\ x.deletedAt = NULL }
                    users == { c.userId : c \in { x \in Range(customerType) :
                                  /\ x.merchantId = o.merchantId
                                  /\ \E t \in live : t.minCustomerType = x.type } }
                IN  /\ PairsOf(o.id, o.kind) = users \X ActiveOutletIds(o.merchantId)
                    /\ live = {} => RowsOf(o.id, o.kind) = {}

\* a Loyalty run left rows for one user and none for a user whose type is
\* the minCustomerType of a tier that is inactive or soft-deleted
C33_Witness ==
    /\ Settled /\ last.path = "diff"
    /\ \E o \in LastOffers :
          /\ o.kind = "Loyalty" /\ Live(o) /\ last.merchantId = o.merchantId
          /\ RowsOf(o.id, o.kind) # {}
          /\ \E t \in loyaltyTier, c \in Range(customerType) :
                /\ t.loyaltyProgramId = o.id
                /\ ~t.isActive \/ t.deletedAt # NULL
                /\ c.merchantId = o.merchantId /\ c.type = t.minCustomerType
                /\ \A r \in RowsOf(o.id, o.kind) : r.userId # c.userId

(***************************************************************************)
(* C34: in every step a row that stays in the table keeps its id, userId,  *)
(* outletId, offerType, offerId, merchantId and isEligible (an update      *)
(* changes validFrom, validUntil and lastUpdated only); a row that enters  *)
(* the table takes an id that no row had before; a row leaves the table    *)
(* only in a run, as one of the rows that run deleted.                     *)
(***************************************************************************)
C34_RowLifecycle ==
    [][ LET gone == { x \in eligibility : \A y \in eligibility' : y.id # x.id }
            come == { y \in eligibility' : \A x \in eligibility : x.id # y.id }
        IN  /\ \A x \in eligibility, y \in eligibility' :
                  x.id = y.id =>
                      /\ y.userId = x.userId /\ y.outletId = x.outletId
                      /\ y.offerType = x.offerType /\ y.offerId = x.offerId
                      /\ y.merchantId = x.merchantId /\ y.isEligible = x.isEligible
            /\ \A y \in come : nextId <= y.id /\ y.id < nextId'
            /\ \A x \in eligibility : x.id < nextId
            /\ gone # {} => /\ last'.ran
                            /\ last'.deleted = Cardinality(gone)
                            /\ \A x \in gone : /\ x.offerId = last'.offerId
                                                /\ x.offerType = last'.offerType
            /\ come # {} => last'.created >= Cardinality(come) ]_vars

\* one run updated rows in place, deleted others, and the updated rows are
\* in the table with the flag they were created with
C34_Witness ==
    /\ last.ran /\ last.path = "diff" /\ last.updated > 0 /\ last.deleted > 0
    /\ \E r \in eligibility : r.lastUpdated > r.createdAt /\ r.isEligible

(***************************************************************************)
(* C35: every row that a step of a job creates, changes or removes has the *)
(* offerId and the offerType of the job's event; and once the jobs of two  *)
(* different offers have both completed, the table holds the rows that the *)
(* two runs leave when run one after the other, in either order.           *)
(***************************************************************************)
C35_OwnRowsOnly ==
    [][ /\ \A x \in (eligibility \ eligibility') \cup (eligibility' \ eligibility) :
              \E j \in DOMAIN jobs :
                  /\ jobs'[j] # jobs[j]
                  /\ jobs[j].event.offerId = x.offerId
                  /\ jobs[j].event.offerType = x.offerType
        /\ ( /\ Len(jobs') = 2
             /\ \A j \in DOMAIN jobs' : jobs'[j].state = "completed" )
           => /\ Unnumbered(eligibility') =
                    Unnumbered(RunOn(RunOn(TwoStart, jobs'[1].event), jobs'[2].event).rows)
              /\ Unnumbered(eligibility') =
                    Unnumbered(RunOn(RunOn(TwoStart, jobs'[2].event), jobs'[1].event).rows)
      ]_vars

\* the run for the second offer has written its rows while the run for the
\* first offer is between its reads and its write
C35_Witness ==
    \E j \in DOMAIN jobs, k \in DOMAIN jobs :
        /\ jobs[j].event.offerId = "a2" /\ jobs[j].returned
        /\ jobs[k].event.offerId = "a1" /\ Computing(k)
        /\ \E x \in eligibility : x.offerId = "a2"
        /\ \E x \in eligibility : x.offerId = "a1"

(***************************************************************************)
(* C36: when deactivateOffer has returned for an offer and no job of the   *)
(* offer is waiting, delayed or running, the offer has no eligibility row. *)
(***************************************************************************)
C36_NoRowAfterDeactivate ==
    \A o \in offers :
        ( /\ o.kind = "Cashback" /\ ~o.isActive
          /\ \A j \in DOMAIN jobs :
                jobs[j].event.offerId = o.id => jobs[j].state \in {"completed", "failed"} )
        => \A r \in eligibility : r.offerId # o.id

(***************************************************************************)
(* C37: every offer that getOffers(userId, outletId) returns for an outlet *)
(* has the merchantId of the merchant that owns the outlet (every event of *)
(* the queue carries the merchantId of its offer).                         *)
(***************************************************************************)
C37_MerchantOwnsOutlet ==
    (\A j \in DOMAIN jobs : \E o \in offers : jobs[j].event = CreatedEvent(o)) =>
        \A u \in Users : \A i \in DOMAIN outlet :
            LET r == GetOffersResult(u, outlet[i].id, "", DEFAULT_LIMIT, DEFAULT_PAGE)
            IN  \A x \in r.offers.cashback \cup r.offers.exclusive :
                    x.merchantId = outlet[i].merchantId

\* a call with an outlet filter has returned an offer, which is in the cache
C37_Witness ==
    \E c \in cache :
        /\ JsonParse(c.data).offers.cashback # {}
        /\ \E j \in DOMAIN jobs : jobs[j].state = "completed"

(***************************************************************************)
(* C38: every offer that getOffers returns has a startDate that is         *)
(* strictly earlier than its endDate, whether or not the offer has a       *)
(* stored start date and a stored end date.                                *)
(***************************************************************************)
C38_StartBeforeEnd ==
    \A q \in ReadQueries :
        LET r == GetOffersResult(q.userId, q.outletId, q.offerType, q.limit, q.page)
        IN  \A x \in r.offers.cashback \cup r.offers.exclusive :
                ParseNat(x.startDate) < ParseNat(x.endDate)

(***************************************************************************)
(* C9: when the eligible types of an active offer include 'All', a run     *)
(* makes every user with any customer-type row at the merchant eligible at *)
(* every active outlet of the merchant; when 'All' is absent only users    *)
(* whose type is in the eligible set have rows.                            *)
(***************************************************************************)
C9_AllSentinel ==
    Settled =>
        \A o \in LastOffers :
            (Live(o) /\ last.merchantId = o.merchantId) =>
                IF "All" \in EligibleSet(o)
                THEN \A u \in UsersAt(o.merchantId), x \in ActiveOutletIds(o.merchantId) :
                        <<u, x>> \in PairsOf(o.id, o.kind)
                ELSE \A r \in RowsOf(o.id, o.kind) :
                        \E c \in Range(customerType) :
                            /\ c.userId = r.userId /\ c.merchantId = o.merchantId
                            /\ c.type \in EligibleSet(o)

\* 'All' gave a row to a user whose own type is not named by the offer
C9_Witness ==
    /\ Settled /\ last.path = "diff"
    /\ \E o \in LastOffers :
          /\ "All" \in EligibleSet(o)
          /\ \E r \in RowsOf(o.id, o.kind) :
                \A c \in Range(customerType) :
                    (c.userId = r.userId /\ c.merchantId = o.merchantId)
                        => c.type \notin EligibleSet(o)

(***************************************************************************)
(* C10: when only the end date of an offer changed since its last run, the *)
(* rerun updates every row of the offer in place: nothing is created or    *)
(* deleted, the row ids are the same, every row was updated and carries    *)
(* the new end date as validUntil.                                         *)
(***************************************************************************)
C10_WindowUpdate ==
    (last.endOnly /\ dirty.what = "clean") =>
        \A o \in LastOffers :
            /\ last.created = 0 /\ last.deleted = 0
            /\ last.sameIds
            /\ last.updated = Cardinality(RowsOf(o.id, o.kind))
            /\ \A r \in RowsOf(o.id, o.kind) : r.validUntil = o.endDate

\* a rerun after an end-date change that found rows to move
C10_Witness ==
    /\ last.endOnly /\ dirty.what = "clean" /\ last.updated > 0
    /\ \E o \in LastOffers : RowsOf(o.id, o.kind) # {}

====
